---- MODULE Spec2Model ----
(***************************************************************************)
(* The HTTP ingestion gateway of nsqd: the handlers of                     *)
(* nsqdserver/http.go and of the older nsqd/http.go, which the repository  *)
(* keeps side by side.  A worker serves one request at a time; the queue   *)
(* engine, the partition-routing collaborator and the buffer pool are      *)
(* modelled at their interface: each call a handler makes is recorded in   *)
(* the order it is made.                                                   *)
(***************************************************************************)
EXTENDS Integers, Sequences, FiniteSets, TLC

\* ---------------------------------------------------------------- bounds
\* opts.MaxMsgSize and opts.MaxBodySize are configuration, not literals.
MaxMsgSize == 2
MaxBodySize == 6

\* ------------------------------------------------------------- constants
NL == 10
Alphabet == {97, NL}

Solo == {1}
Workers == {1, 2}

Servers == {"nsqdserver", "nsqd"}

\* The io errors a read can end with; Nil is "no error".
Nil == "nil"
EOF == "EOF"
ErrUnexpectedEOF == "ErrUnexpectedEOF"
ErrIO == "ErrIO"

Min(a, b) == IF a < b THEN a ELSE b

Prefix(s, n) == SubSeq(s, 1, Min(n, Len(s)))

SeqsUpTo(n) == UNION {[1..k -> Alphabet] : k \in 0..n}

\* --------------------------------------------------------------- streams
\* A request body as the handler sees it: the bytes req.Body yields and
\* the condition the read ends with after them.
Stream(bytes, rerr) == [bytes |-> bytes, rerr |-> rerr]

\* io.LimitReader(r, n): at most n bytes, then a "fake" EOF.
LimitReader(r, n) ==
    IF Len(r.bytes) >= n
    THEN Stream(Prefix(r.bytes, n), EOF)
    ELSE r

\* io.ReadFull(r, buf) with len(buf) = size: fills buf or reports why not.
ReadFull(r, size) ==
    LET n == Min(Len(r.bytes), size) IN
    [n   |-> n,
     err |-> IF n = size THEN Nil
             ELSE IF r.rerr = EOF
                  THEN (IF n = 0 THEN EOF ELSE ErrUnexpectedEOF)
                  ELSE r.rerr]

\* ioutil.ReadAll(r): everything up to EOF; EOF itself is not an error.
ReadAll(r) ==
    [body |-> r.bytes,
     err  |-> IF r.rerr = EOF THEN Nil ELSE r.rerr]

\* ------------------------------------------------------------- responses
Err(code, msg) == [code |-> code, msg |-> msg]
OK == [code |-> 200, msg |-> "OK"]
NoResp == [code |-> 0, msg |-> ""]

VARIABLES
    tlsEnabled,   \* httpServer.tlsEnabled
    tlsRequired,  \* httpServer.tlsRequired
    isMaster,     \* what checkForMasterWrite answers for the topic
    healthy,      \* the node's health, as setHealth left it
    topics,       \* the topics that exist on this node
    pc,           \* per worker: where its handler stands
    req,          \* per worker: the request being served
    wire,         \* per worker: the body stream of the request
    loc,          \* per worker: the handler's locals
    calls,        \* per worker: the collaborator calls of this request
    resp,         \* per worker: the response
    leased,       \* per worker: buffers and readers out of the pool
    published,    \* the options snapshots given to swapOpts, the current one last
    arrays,       \* the backing arrays of the list-valued option
    notifications, \* per triggerOptsNotification: the snapshot current at the call
    channels,     \* per topic: its channels
    adm           \* per worker: locals and result of the config and stats handlers

\* The state only the config and stats handlers touch.
adminVars == <<published, arrays, notifications, channels, adm>>

vars == <<tlsEnabled, tlsRequired, isMaster, healthy, topics, pc, req, wire, loc, calls, resp, leased,
          published, arrays, notifications, channels, adm>>

NoReq == [srv |-> "", op |-> "", contentLength |-> 0, query |-> "",
          topic |-> "", part |-> 0, binary |-> FALSE]
\* Unread: the handler has not looked at the body.
Unread == "unread"
NoWire == Stream(<<>>, Unread)
NoLoc == [body |-> <<>>, msgs |-> <<>>, total |-> 0, owned |-> FALSE, err |-> Nil,
          failed |-> Nil, buffers |-> 0]
NoCalls == [put |-> <<>>, putBatch |-> <<>>, forward |-> <<>>, lookups |-> 0]

\* The errors the engine's put and the forward collaborator can return.
PutErrors == {"PUT_FAILED"}
ForwardErrors == {"FORWARD_FAILED", "FORWARD_TIMEOUT"}

\* ---------------------------------------------------------------- inputs
TopicNames == {"t1", "t2"}
Parts == {0, 1}
\* topic.GetTopicPart(): the partition this node holds of a topic.
GetTopicPart(name) == 0

Queries == {"unparseable", "no_topic", "bad_topic", "ok"}
ContentLengths == (-1)..(MaxBodySize + 1)

\* The topic and partition arguments of a well-formed query.
Targets(srv) ==
    IF srv = "nsqd" THEN {<<"t1", 0>>, <<"t2", 0>>}
    ELSE {<<"t1", 0>>, <<"t1", 1>>, <<"t2", 0>>}

Requests(srv) ==
    {[srv |-> srv, op |-> "pub", contentLength |-> cl, query |-> q,
      topic |-> "", part |-> 0, binary |-> FALSE] :
        cl \in ContentLengths, q \in Queries \ {"ok"}}
    \cup
    {[srv |-> srv, op |-> "pub", contentLength |-> cl, query |-> "ok",
      topic |-> t[1], part |-> t[2], binary |-> FALSE] :
        cl \in ContentLengths, t \in Targets(srv)}
    \cup
    {[srv |-> srv, op |-> "mpub", contentLength |-> cl, query |-> q,
      topic |-> "", part |-> 0, binary |-> b] :
        cl \in ContentLengths, q \in Queries \ {"ok"}, b \in BOOLEAN}
    \cup
    {[srv |-> srv, op |-> "mpub", contentLength |-> cl, query |-> "ok",
      topic |-> t[1], part |-> t[2], binary |-> b] :
        cl \in ContentLengths, t \in Targets(srv), b \in BOOLEAN}

\* What http.Request.Body can yield for a declared length cl: with a
\* declared length, at most cl bytes, ending in EOF exactly when all cl
\* arrived; without one (cl = -1, chunked), any bytes, ending in EOF when
\* the client finished and in an error when it went away.
BodyStreams(cl, limit) ==
    {Stream(b, e) :
        b \in SeqsUpTo(IF cl >= 0 THEN Min(cl, limit) ELSE limit),
        e \in {EOF, ErrUnexpectedEOF, ErrIO}}

BodyOf(cl, limit) ==
    {r \in BodyStreams(cl, limit) :
        cl >= 0 => ((r.rerr = EOF) <=> (Len(r.bytes) = cl))}

\* --------------------------------------------------- the options snapshot
\* A slice header: its backing array in arrays (0: none) and its length.
NilSlice == [arr |-> 0, len |-> 0]
Cap(sl, heap) == IF sl.arr = 0 THEN 0 ELSE Len(heap[sl.arr])
\* The strings a slice shows: the first len cells of its backing array.
Elems(sl, heap) == IF sl.arr = 0 THEN <<>> ELSE SubSeq(heap[sl.arr], 1, sl.len)

\* Options, the fields the config handler can write and one it cannot:
\* NSQLookupdTCPAddresses []string, Verbose bool, LogLevel, MaxMsgSize.
InitOpts == [addrs |-> [arr |-> 1, len |-> 2], verbose |-> FALSE, logLevel |-> 1]
InitArrays == << <<"a", "b">> >>

\* s.ctx.getOpts(): the current snapshot.
getOpts(pub) == pub[Len(pub)]

\* The channels of the topics; a topic created by a publish has none.
ChannelNames == {"c1", "c2"}
InitChannels ==
    [t \in TopicNames |->
        IF t = "t1" THEN <<[name |-> "c1", paused |-> FALSE, depth |-> 1],
                           [name |-> "c2", paused |-> FALSE, depth |-> 2]>>
        ELSE <<>>]

\* ------------------------------------------------------- JSON documents
\* A request body as the JSON document it spells: a syntax error, null, a
\* boolean, a number, a string, or an array of strings and numbers.
JDoc(k, b, n, str, a) == [k |-> k, b |-> b, n |-> n, s |-> str, a |-> a]
JInvalid == JDoc("invalid", FALSE, 0, "", <<>>)
JNull == JDoc("null", FALSE, 0, "", <<>>)
JBool(b) == JDoc("bool", b, 0, "", <<>>)
JNum(n) == JDoc("number", FALSE, n, "", <<>>)
JStr(str) == JDoc("string", FALSE, 0, str, <<>>)
JArr(a) == JDoc("array", FALSE, 0, "", a)
EStr(str) == [k |-> "string", s |-> str, n |-> 0]
ENum(n) == [k |-> "number", s |-> "", n |-> n]

\* The errors of json.Unmarshal.
SyntaxError == "SyntaxError"
UnmarshalTypeError == "UnmarshalTypeError"

\* json.Unmarshal into a bool and into an integer: null leaves the target
\* as it is, a value of another kind is a type error.
UnmarshalBool(doc, cur) ==
    IF doc.k = "invalid" THEN [err |-> SyntaxError, val |-> cur]
    ELSE IF doc.k = "null" THEN [err |-> Nil, val |-> cur]
    ELSE IF doc.k = "bool" THEN [err |-> Nil, val |-> doc.b]
    ELSE [err |-> UnmarshalTypeError, val |-> cur]

UnmarshalInt(doc, cur) ==
    IF doc.k = "invalid" THEN [err |-> SyntaxError, val |-> cur]
    ELSE IF doc.k = "null" THEN [err |-> Nil, val |-> cur]
    ELSE IF doc.k = "number" THEN [err |-> Nil, val |-> doc.n]
    ELSE [err |-> UnmarshalTypeError, val |-> cur]

\* The capacity a slice that is full grows to while an array is decoded.
GrowCap(c) == IF c + (c \div 2) < 4 THEN 4 ELSE c + (c \div 2)
Padded(es, c) == [i \in 1..c |-> IF i <= Len(es) THEN es[i] ELSE ""]

\* The array decode of json.Unmarshal into a []string: element i goes to
\* cell i of the slice, in the backing array the slice has while its
\* capacity lasts, in a grown copy after that; an element that is no
\* string is a type error that leaves its cell alone and does not stop the
\* decode; the slice ends with the number of elements as its length.
RECURSIVE decodeArray(_, _, _, _, _)
decodeArray(es, i, sl, heap, err) ==
    IF es = <<>>
    THEN [err  |-> err,
          sl   |-> IF i = 0 THEN NilSlice
                   ELSE IF i < sl.len THEN [sl EXCEPT !.len = i] ELSE sl,
          heap |-> heap]
    ELSE LET grow  == i >= Cap(sl, heap)
             heap1 == IF grow
                      THEN Append(heap, Padded(Elems(sl, heap), GrowCap(Cap(sl, heap))))
                      ELSE heap
             arr1  == IF grow THEN Len(heap1) ELSE sl.arr
             sl1   == [arr |-> arr1, len |-> IF i >= sl.len THEN i + 1 ELSE sl.len]
             e     == Head(es)
             heap2 == IF e.k = "string"
                      THEN [heap1 EXCEPT ![arr1][i + 1] = e.s]
                      ELSE heap1
             err2  == IF e.k # "string" /\ err = Nil THEN UnmarshalTypeError ELSE err
         IN decodeArray(Tail(es), i + 1, sl1, heap2, err2)

\* json.Unmarshal into a []string held in the slice sl.
UnmarshalStrings(doc, sl, heap) ==
    IF doc.k = "invalid" THEN [err |-> SyntaxError, sl |-> sl, heap |-> heap]
    ELSE IF doc.k = "null" THEN [err |-> Nil, sl |-> NilSlice, heap |-> heap]
    ELSE IF doc.k = "array" THEN decodeArray(doc.a, 0, sl, heap, Nil)
    ELSE [err |-> UnmarshalTypeError, sl |-> sl, heap |-> heap]

\* ---------------------------------------------- config and stats requests
NoQuery == [method |-> "", opt |-> "", doc |-> JNull,
            topic |-> "", channel |-> "", format |-> ""]
NoStart == [n |-> 0, notes |-> 0]
NoOut == [k |-> "none"]
NoAdm == [q |-> NoQuery, local |-> InitOpts, start |-> NoStart,
          swapped |-> 0, notified |-> 0, out |-> NoOut, log |-> <<>>]

\* ------------------------------------------------------------ the state
Init ==
    /\ tlsEnabled \in BOOLEAN
    /\ tlsRequired \in BOOLEAN
    /\ isMaster \in BOOLEAN
    /\ healthy = TRUE
    /\ topics = {"t1"}
    /\ pc = [w \in Workers |-> "idle"]
    /\ req = [w \in Workers |-> NoReq]
    /\ wire = [w \in Workers |-> NoWire]
    /\ loc = [w \in Workers |-> NoLoc]
    /\ calls = [w \in Workers |-> NoCalls]
    /\ resp = [w \in Workers |-> NoResp]
    /\ leased = [w \in Workers |-> 0]
    /\ published = <<InitOpts>>
    /\ arrays = InitArrays
    /\ notifications = <<>>
    /\ channels = InitChannels
    /\ adm = [w \in Workers |-> NoAdm]

\* Return without the deferred calls: the leases stay out.
Return_KeepsLease(w, r, k) ==
    /\ resp' = [resp EXCEPT ![w] = r]
    /\ UNCHANGED leased
    /\ pc' = [pc EXCEPT ![w] = "done"]

\* The handler returns r; its deferred calls give k leases back to the pool.
Return(w, r, k) ==
    /\ resp' = [resp EXCEPT ![w] = r]
    /\ leased' = [leased EXCEPT ![w] = @ - k]
    /\ pc' = [pc EXCEPT ![w] = "done"]

\* The 403 of ServeHTTP: {"message": "TLS_REQUIRED"}, to which nsqd adds
\* "https_port" with the port of its HTTPS listener.
HTTPSPort == 4152
TLSRequired(srv) ==
    IF srv = "nsqd"
    THEN [code |-> 403, msg |-> "TLS_REQUIRED", https_port |-> HTTPSPort]
    ELSE [code |-> 403, msg |-> "TLS_REQUIRED"]

\* httpServer.ServeHTTP on request r: the TLS gate, then the route's
\* handler.
ServeHTTPOn(w, r) ==
    /\ pc[w] = "idle"
    /\ req' = [req EXCEPT ![w] = r]
    /\ IF ~tlsEnabled /\ tlsRequired
       THEN Return(w, TLSRequired(r.srv), 0)
       ELSE /\ pc' = [pc EXCEPT ![w] = r.op]
            /\ UNCHANGED <<resp, leased>>
    /\ UNCHANGED <<tlsEnabled, tlsRequired, isMaster, healthy, topics, wire, loc, calls>>

\* httpServer.ServeHTTP on a publish request.
ServeHTTP(w) ==
    /\ pc[w] = "idle"
    /\ \E srv \in Servers : \E r \in Requests(srv) : ServeHTTPOn(w, r)
    /\ UNCHANGED adminVars

\* getExistingTopicFromQuery taking a topic that does not exist for one
\* that does.
getExistingTopicFromQuery_AnyTopic(r, ts) ==
    IF r.query = "unparseable" THEN Err(400, "INVALID_REQUEST")
    ELSE IF r.query = "no_topic" THEN Err(400, "MISSING_ARG_TOPIC")
    ELSE IF r.query = "bad_topic" THEN Err(400, "INVALID_ARG_TOPIC")
    ELSE IF r.part # GetTopicPart(r.topic)
         THEN Err(404, "Topic partition not exist")
    ELSE NoResp

\* httpServer.getExistingTopicFromQuery (nsqdserver): the error it
\* returns, NoResp for none.
getExistingTopicFromQuery(r, ts) ==
    IF r.query = "unparseable" THEN Err(400, "INVALID_REQUEST")
    ELSE IF r.query = "no_topic" THEN Err(400, "MISSING_ARG_TOPIC")
    ELSE IF r.query = "bad_topic" THEN Err(400, "INVALID_ARG_TOPIC")
    ELSE IF r.topic \notin ts THEN Err(400, "TOPIC_NOT_EXIST")
    ELSE IF r.part # GetTopicPart(r.topic)
         THEN Err(404, "Topic partition not exist")
    ELSE NoResp

\* A single publish turned away on its declared length: the body the
\* client supplies stays on the connection, unread by the handler.
LeftUnread(w) ==
    \E r \in BodyOf(req[w].contentLength, MaxMsgSize + 1) :
        wire' = [wire EXCEPT ![w] = r]

\* doPUB_Admit letting a declared length of zero through.
doPUB_Admit_ZeroPasses(w) ==
    /\ pc[w] = "pub"
    /\ req[w].srv = "nsqdserver"
    /\ LET r == req[w]
           e == getExistingTopicFromQuery(r, topics) IN
       IF r.contentLength > MaxMsgSize
       THEN Return(w, Err(413, "MSG_TOO_BIG"), 0) /\ LeftUnread(w)
       ELSE IF r.contentLength < 0
       THEN Return(w, Err(400, "MSG_EMPTY"), 0) /\ LeftUnread(w)
       ELSE IF e # NoResp THEN Return(w, e, 0) /\ UNCHANGED wire
       ELSE /\ leased' = [leased EXCEPT ![w] = @ + 1]
            /\ pc' = [pc EXCEPT ![w] = "pub_read"]
            /\ UNCHANGED <<resp, wire>>
    /\ UNCHANGED adminVars /\ UNCHANGED <<tlsEnabled, tlsRequired, isMaster, healthy, topics, req, loc, calls>>

\* doPUB_Admit without the test of the declared length against MaxMsgSize.
doPUB_Admit_NoSizeGate(w) ==
    /\ pc[w] = "pub"
    /\ req[w].srv = "nsqdserver"
    /\ LET r == req[w]
           e == getExistingTopicFromQuery(r, topics) IN
       IF FALSE
       THEN Return(w, Err(413, "MSG_TOO_BIG"), 0) /\ LeftUnread(w)
       ELSE IF r.contentLength <= 0
       THEN Return(w, Err(400, "MSG_EMPTY"), 0) /\ LeftUnread(w)
       ELSE IF e # NoResp THEN Return(w, e, 0) /\ UNCHANGED wire
       ELSE /\ leased' = [leased EXCEPT ![w] = @ + 1]
            /\ pc' = [pc EXCEPT ![w] = "pub_read"]
            /\ UNCHANGED <<resp, wire>>
    /\ UNCHANGED adminVars /\ UNCHANGED <<tlsEnabled, tlsRequired, isMaster, healthy, topics, req, loc, calls>>

\* doPUB (nsqdserver), lines 184-201: the declared-length gate, the topic,
\* the buffer lease.
doPUB_Admit(w) ==
    /\ pc[w] = "pub"
    /\ req[w].srv = "nsqdserver"
    /\ LET r == req[w]
           e == getExistingTopicFromQuery(r, topics) IN
       IF r.contentLength > MaxMsgSize
       THEN Return(w, Err(413, "MSG_TOO_BIG"), 0) /\ LeftUnread(w)
       ELSE IF r.contentLength <= 0
       THEN Return(w, Err(400, "MSG_EMPTY"), 0) /\ LeftUnread(w)
       ELSE IF e # NoResp THEN Return(w, e, 0) /\ UNCHANGED wire
       ELSE /\ leased' = [leased EXCEPT ![w] = @ + 1]
            /\ pc' = [pc EXCEPT ![w] = "pub_read"]
            /\ UNCHANGED <<resp, wire>>
    /\ UNCHANGED adminVars /\ UNCHANGED <<tlsEnabled, tlsRequired, isMaster, healthy, topics, req, loc, calls>>

\* doPUB_Read without body = body[:n]: after a short read the payload
\* keeps the buffer's full declared length.
doPUB_Read_NoTruncate(w) ==
    /\ pc[w] = "pub_read"
    /\ \E r \in BodyOf(req[w].contentLength, MaxMsgSize + 1) :
        LET cl == req[w].contentLength
            rf == ReadFull(LimitReader(r, cl + 1), cl)
            body == Prefix(r.bytes, rf.n) \o [i \in 1..(cl - rf.n) |-> 0] IN
        /\ wire' = [wire EXCEPT ![w] = r]
        /\ loc' = [loc EXCEPT ![w].body = body, ![w].err = rf.err]
        /\ IF rf.err \notin {Nil, EOF, ErrUnexpectedEOF}
           THEN Return(w, Err(500, "INTERNAL_ERROR"), 1)
           ELSE IF Len(body) = 0
           THEN Return(w, Err(400, "MSG_EMPTY"), 1)
           ELSE /\ pc' = [pc EXCEPT ![w] = "pub_route"]
                /\ UNCHANGED <<resp, leased>>
    /\ UNCHANGED adminVars /\ UNCHANGED <<tlsEnabled, tlsRequired, isMaster, healthy, topics, req, calls>>

\* doPUB_Read going on after any read error, not only the end-of-stream
\* conditions.
doPUB_Read_AnyError(w) ==
    /\ pc[w] = "pub_read"
    /\ \E r \in BodyOf(req[w].contentLength, MaxMsgSize + 1) :
        LET cl == req[w].contentLength
            rf == ReadFull(LimitReader(r, cl + 1), cl)
            body == Prefix(r.bytes, rf.n) IN
        /\ wire' = [wire EXCEPT ![w] = r]
        /\ loc' = [loc EXCEPT ![w].body = body, ![w].err = rf.err]
        /\ IF FALSE
           THEN Return(w, Err(500, "INTERNAL_ERROR"), 1)
           ELSE IF Len(body) = 0
           THEN Return(w, Err(400, "MSG_EMPTY"), 1)
           ELSE /\ pc' = [pc EXCEPT ![w] = "pub_route"]
                /\ UNCHANGED <<resp, leased>>
    /\ UNCHANGED adminVars /\ UNCHANGED <<tlsEnabled, tlsRequired, isMaster, healthy, topics, req, calls>>

\* doPUB (nsqdserver), lines 202-217: the body read into the leased buffer.
doPUB_Read(w) ==
    /\ pc[w] = "pub_read"
    /\ \E r \in BodyOf(req[w].contentLength, MaxMsgSize + 1) :
        LET cl == req[w].contentLength
            rf == ReadFull(LimitReader(r, cl + 1), cl)
            body == Prefix(r.bytes, rf.n) IN
        /\ wire' = [wire EXCEPT ![w] = r]
        /\ loc' = [loc EXCEPT ![w].body = body, ![w].err = rf.err]
        /\ IF rf.err \notin {Nil, EOF, ErrUnexpectedEOF}
           THEN Return(w, Err(500, "INTERNAL_ERROR"), 1)
           ELSE IF Len(body) = 0
           THEN Return(w, Err(400, "MSG_EMPTY"), 1)
           ELSE /\ pc' = [pc EXCEPT ![w] = "pub_route"]
                /\ UNCHANGED <<resp, leased>>
    /\ UNCHANGED adminVars /\ UNCHANGED <<tlsEnabled, tlsRequired, isMaster, healthy, topics, req, calls>>

\* doPUB_Route with the lookup's answer ignored: the local put is made
\* whatever the lookup says.
doPUB_Route_AlwaysLocal(w) ==
    /\ pc[w] = "pub_route"
    /\ loc' = [loc EXCEPT ![w].owned = isMaster]
    /\ calls' = [calls EXCEPT ![w].lookups = @ + 1,
                              ![w].put = Append(@, loc[w].body)]
    /\ pc' = [pc EXCEPT ![w] = "pub_put"]
    /\ UNCHANGED adminVars /\ UNCHANGED <<tlsEnabled, tlsRequired, isMaster, healthy, topics, req, wire, resp, leased>>

\* doPUB_Route giving the buffer back to the pool before it makes the
\* call.
doPUB_Route_ReturnsBuffer(w) ==
    /\ pc[w] = "pub_route"
    /\ loc' = [loc EXCEPT ![w].owned = isMaster]
    /\ leased' = [leased EXCEPT ![w] = @ - 1]
    /\ IF isMaster
       THEN /\ calls' = [calls EXCEPT ![w].lookups = @ + 1,
                                      ![w].put = Append(@, loc[w].body)]
            /\ pc' = [pc EXCEPT ![w] = "pub_put"]
       ELSE /\ calls' = [calls EXCEPT ![w].lookups = @ + 1,
                                      ![w].forward = Append(@,
                                          <<req[w].topic, GetTopicPart(req[w].topic), loc[w].body>>)]
            /\ pc' = [pc EXCEPT ![w] = "pub_forward"]
    /\ UNCHANGED adminVars /\ UNCHANGED <<tlsEnabled, tlsRequired, isMaster, healthy, topics, req, wire, resp>>

\* doPUB (nsqdserver), lines 219-230: the ownership lookup and the call it
\* selects, PutMessage or forwardPutMessage.
doPUB_Route(w) ==
    /\ pc[w] = "pub_route"
    /\ loc' = [loc EXCEPT ![w].owned = isMaster]
    /\ IF isMaster
       THEN /\ calls' = [calls EXCEPT ![w].lookups = @ + 1,
                                      ![w].put = Append(@, loc[w].body)]
            /\ pc' = [pc EXCEPT ![w] = "pub_put"]
       ELSE /\ calls' = [calls EXCEPT ![w].lookups = @ + 1,
                                      ![w].forward = Append(@,
                                          <<req[w].topic, GetTopicPart(req[w].topic), loc[w].body>>)]
            /\ pc' = [pc EXCEPT ![w] = "pub_forward"]
    /\ UNCHANGED adminVars /\ UNCHANGED <<tlsEnabled, tlsRequired, isMaster, healthy, topics, req, wire, resp, leased>>

\* doPUB_PutReturn setting the health from the result of the put.
doPUB_PutReturn_SetsHealth(w) ==
    /\ pc[w] = "pub_put"
    /\ \E e \in {Nil} \cup PutErrors :
        /\ loc' = [loc EXCEPT ![w].failed = e]
        /\ healthy' = (e = Nil)
        /\ Return(w, IF e = Nil THEN OK ELSE Err(503, e), 1)
    /\ UNCHANGED adminVars /\ UNCHANGED <<tlsEnabled, tlsRequired, isMaster, topics, req, wire, calls>>

\* doPUB (nsqdserver), lines 220-225 and 237: PutMessage returns.
doPUB_PutReturn(w) ==
    /\ pc[w] = "pub_put"
    /\ \E e \in {Nil} \cup PutErrors :
        /\ loc' = [loc EXCEPT ![w].failed = e]
        /\ Return(w, IF e = Nil THEN OK ELSE Err(503, e), 1)
    /\ UNCHANGED adminVars /\ UNCHANGED <<tlsEnabled, tlsRequired, isMaster, healthy, topics, req, wire, calls>>

\* doPUB answering a failed forward with the acknowledgement.
doPUB_ForwardReturn_Swallows(w) ==
    /\ pc[w] = "pub_forward"
    /\ \E e \in {Nil} \cup ForwardErrors :
        /\ loc' = [loc EXCEPT ![w].failed = e]
        /\ Return(w, OK, 1)
    /\ UNCHANGED adminVars /\ UNCHANGED <<tlsEnabled, tlsRequired, isMaster, healthy, topics, req, wire, calls>>

\* doPUB (nsqdserver), lines 230-237: forwardPutMessage returns.
doPUB_ForwardReturn(w) ==
    /\ pc[w] = "pub_forward"
    /\ \E e \in {Nil} \cup ForwardErrors :
        /\ loc' = [loc EXCEPT ![w].failed = e]
        /\ Return(w, IF e = Nil THEN OK ELSE Err(500, e), 1)
    /\ UNCHANGED adminVars /\ UNCHANGED <<tlsEnabled, tlsRequired, isMaster, healthy, topics, req, wire, calls>>

\* httpServer.getTopicFromQuery (nsqd): the error it returns, NoResp for
\* none; without an error GetTopic has made the topic exist.
getTopicFromQuery(r) ==
    IF r.query = "unparseable" THEN Err(400, "INVALID_REQUEST")
    ELSE IF r.query = "no_topic" THEN Err(400, "MISSING_ARG_TOPIC")
    ELSE IF r.query = "bad_topic" THEN Err(400, "INVALID_TOPIC")
    ELSE NoResp

\* doPUB (nsqd), part_000 lines 178-203: the declared-length gate, the
\* bounded read, the topic, and the call of topic.PutMessage.
nsqd_doPUB(w) ==
    /\ pc[w] = "pub"
    /\ req[w].srv = "nsqd"
    /\ IF req[w].contentLength > MaxMsgSize
       THEN /\ Return(w, Err(413, "MSG_TOO_BIG"), 0)
            /\ LeftUnread(w)
            /\ UNCHANGED <<loc, calls, topics>>
       ELSE \E r \in BodyOf(req[w].contentLength, MaxMsgSize + 1) :
            LET readMax == MaxMsgSize + 1
                ra == ReadAll(LimitReader(r, readMax))
                e == getTopicFromQuery(req[w]) IN
            /\ wire' = [wire EXCEPT ![w] = r]
            /\ loc' = [loc EXCEPT ![w].body = ra.body, ![w].err = ra.err]
            /\ IF ra.err # Nil
               THEN /\ Return(w, Err(500, "INTERNAL_ERROR"), 0)
                    /\ UNCHANGED <<calls, topics>>
               ELSE IF Len(ra.body) = readMax
               THEN /\ Return(w, Err(413, "MSG_TOO_BIG"), 0)
                    /\ UNCHANGED <<calls, topics>>
               ELSE IF Len(ra.body) = 0
               THEN /\ Return(w, Err(400, "MSG_EMPTY"), 0)
                    /\ UNCHANGED <<calls, topics>>
               ELSE IF e # NoResp
               THEN /\ Return(w, e, 0)
                    /\ UNCHANGED <<calls, topics>>
               ELSE /\ topics' = topics \cup {req[w].topic}
                    /\ calls' = [calls EXCEPT ![w].put = Append(@, ra.body)]
                    /\ pc' = [pc EXCEPT ![w] = "nsqd_pub_put"]
                    /\ UNCHANGED <<resp, leased>>
    /\ UNCHANGED adminVars /\ UNCHANGED <<tlsEnabled, tlsRequired, isMaster, healthy, req>>

\* doPUB (nsqd), part_000 lines 203-209: topic.PutMessage returns.
nsqd_doPUB_PutReturn(w) ==
    /\ pc[w] = "nsqd_pub_put"
    /\ \E e \in {Nil} \cup PutErrors :
        /\ loc' = [loc EXCEPT ![w].failed = e]
        /\ Return(w, IF e = Nil THEN OK ELSE Err(503, "EXITING"), 0)
    /\ UNCHANGED adminVars /\ UNCHANGED <<tlsEnabled, tlsRequired, isMaster, healthy, topics, req, wire, calls>>

\* ------------------------------------------------------ text batch decode
\* The index of the first delim in s, 0 when there is none.
RECURSIVE IndexByte(_, _, _)
IndexByte(s, delim, i) ==
    IF i > Len(s) THEN 0
    ELSE IF s[i] = delim THEN i
    ELSE IndexByte(s, delim, i + 1)

\* bufio.Reader.ReadBytes(delim): the bytes up to and including the first
\* delim; without one, what is left together with the condition the read
\* ends with.
ReadBytes(r, delim) ==
    LET i == IndexByte(r.bytes, delim, 1) IN
    IF i > 0
    THEN [block |-> SubSeq(r.bytes, 1, i), err |-> Nil,
          rest |-> Stream(SubSeq(r.bytes, i + 1, Len(r.bytes)), r.rerr)]
    ELSE [block |-> r.bytes, err |-> r.rerr, rest |-> Stream(<<>>, r.rerr)]

\* StripNewline that leaves the newline on the message.
StripNewline_Keeps(block) == block

\* block[:len(block)-1] when block ends in a newline.
StripNewline(block) ==
    IF Len(block) > 0 /\ block[Len(block)] = NL
    THEN SubSeq(block, 1, Len(block) - 1)
    ELSE block

\* TextLoop taking every read error for the end of the body.
RECURSIVE TextLoop_ErrIsEOF(_, _, _, _)
TextLoop_ErrIsEOF(rdr, readMax, total, msgs) ==
    LET rb == ReadBytes(rdr, NL)
        exit == rb.err # Nil
        total2 == total + Len(rb.block)
        block == StripNewline(rb.block)
        out(e, t, m) == [err |-> e, total |-> t, msgs |-> m] IN
    IF total2 = readMax
    THEN out(Err(413, "BODY_TOO_BIG"), total2, msgs)
    ELSE IF Len(block) = 0
    THEN (IF exit THEN out(NoResp, total2, msgs)
          ELSE TextLoop_ErrIsEOF(rb.rest, readMax, total2, msgs))
    ELSE IF Len(block) > MaxMsgSize
    THEN out(Err(413, "MSG_TOO_BIG"), total2, msgs)
    ELSE IF exit THEN out(NoResp, total2, Append(msgs, block))
    ELSE TextLoop_ErrIsEOF(rb.rest, readMax, total2, Append(msgs, block))


\* TextLoop without the test of the cumulative size.
RECURSIVE TextLoop_NoBodyLimit(_, _, _, _)
TextLoop_NoBodyLimit(rdr, readMax, total, msgs) ==
    LET rb == ReadBytes(rdr, NL)
        exit == rb.err # Nil
        total2 == total + Len(rb.block)
        block == StripNewline(rb.block)
        out(e, t, m) == [err |-> e, total |-> t, msgs |-> m] IN
    IF rb.err \notin {Nil, EOF}
    THEN out(Err(500, "INTERNAL_ERROR"), total, msgs)
    ELSE IF Len(block) = 0
    THEN (IF exit THEN out(NoResp, total2, msgs)
          ELSE TextLoop_NoBodyLimit(rb.rest, readMax, total2, msgs))
    ELSE IF Len(block) > MaxMsgSize
    THEN out(Err(413, "MSG_TOO_BIG"), total2, msgs)
    ELSE IF exit THEN out(NoResp, total2, Append(msgs, block))
    ELSE TextLoop_NoBodyLimit(rb.rest, readMax, total2, Append(msgs, block))


\* TextLoop turning away a message of exactly MaxMsgSize bytes.
RECURSIVE TextLoop_OffByOne(_, _, _, _)
TextLoop_OffByOne(rdr, readMax, total, msgs) ==
    LET rb == ReadBytes(rdr, NL)
        exit == rb.err # Nil
        total2 == total + Len(rb.block)
        block == StripNewline(rb.block)
        out(e, t, m) == [err |-> e, total |-> t, msgs |-> m] IN
    IF rb.err \notin {Nil, EOF}
    THEN out(Err(500, "INTERNAL_ERROR"), total, msgs)
    ELSE IF total2 = readMax
    THEN out(Err(413, "BODY_TOO_BIG"), total2, msgs)
    ELSE IF Len(block) = 0
    THEN (IF exit THEN out(NoResp, total2, msgs)
          ELSE TextLoop_OffByOne(rb.rest, readMax, total2, msgs))
    ELSE IF Len(block) >= MaxMsgSize
    THEN out(Err(413, "MSG_TOO_BIG"), total2, msgs)
    ELSE IF exit THEN out(NoResp, total2, Append(msgs, block))
    ELSE TextLoop_OffByOne(rb.rest, readMax, total2, Append(msgs, block))


\* The decode loop of doMPUB, lines 278-308 (part_000 lines 241-272): the
\* error it returns (NoResp for none), with msgs and total as it leaves them.
RECURSIVE TextLoop(_, _, _, _)
TextLoop(rdr, readMax, total, msgs) ==
    LET rb == ReadBytes(rdr, NL)
        exit == rb.err # Nil
        total2 == total + Len(rb.block)
        block == StripNewline(rb.block)
        out(e, t, m) == [err |-> e, total |-> t, msgs |-> m] IN
    IF rb.err \notin {Nil, EOF}
    THEN out(Err(500, "INTERNAL_ERROR"), total, msgs)
    ELSE IF total2 = readMax
    THEN out(Err(413, "BODY_TOO_BIG"), total2, msgs)
    ELSE IF Len(block) = 0
    THEN (IF exit THEN out(NoResp, total2, msgs)
          ELSE TextLoop(rb.rest, readMax, total2, msgs))
    ELSE IF Len(block) > MaxMsgSize
    THEN out(Err(413, "MSG_TOO_BIG"), total2, msgs)
    ELSE IF exit THEN out(NoResp, total2, Append(msgs, block))
    ELSE TextLoop(rb.rest, readMax, total2, Append(msgs, block))

\* ---------------------------------------------------- binary batch decode
Drop(r, n) == Stream(SubSeq(r.bytes, n + 1, Len(r.bytes)), r.rerr)

\* A length as four big-endian bytes, and back.
BigEndianPut(n) == <<0, 0, 0, n>>
BigEndianUint32(b) == ((b[1] * 256 + b[2]) * 256 + b[3]) * 256 + b[4]

\* readLen: the next four bytes as a big-endian length.
readLen(r) ==
    LET rf == ReadFull(r, 4) IN
    [err |-> rf.err,
     n   |-> IF rf.err = Nil THEN BigEndianUint32(SubSeq(r.bytes, 1, 4)) ELSE 0]

\* The payloads of readMPUB: left more framed payloads are read from r.
RECURSIVE readMessages(_, _, _, _)
readMessages(r, left, maxMessageSize, msgs) ==
    LET l == readLen(r)
        rf == ReadFull(Drop(r, 4), l.n)
        bad == [err |-> "BAD_MESSAGE", msgs |-> msgs] IN
    IF left = 0 THEN [err |-> Nil, msgs |-> msgs]
    ELSE IF l.err # Nil THEN bad
    ELSE IF l.n <= 0 THEN bad
    ELSE IF l.n > maxMessageSize THEN bad
    ELSE IF rf.err # Nil THEN bad
    ELSE readMessages(Drop(r, 4 + l.n), left - 1, maxMessageSize,
                      Append(msgs, SubSeq(r.bytes, 5, 4 + l.n)))

\* readMPUB(r, tmp, topic, maxMessageSize): the message count, then that
\* many length-prefixed payloads; the error code is the one the handler
\* puts in its 413 response.
readMPUB(r, maxMessageSize) ==
    LET c == readLen(r) IN
    IF c.err # Nil \/ c.n <= 0
    THEN [err |-> "BAD_BODY", msgs |-> <<>>]
    ELSE readMessages(Drop(r, 4), c.n, maxMessageSize, <<>>)

\* Binary bodies: a declared count and some framed payloads, cut anywhere.
FrameCounts == {0, 1, 2}
BinPayloads ==
    {[i \in 1..k |-> IF i = 1 THEN 98 ELSE 97] : k \in 0..(MaxMsgSize + 1)}

RECURSIVE Frames(_)
Frames(ps) ==
    IF ps = <<>> THEN <<>>
    ELSE BigEndianPut(Len(Head(ps))) \o Head(ps) \o Frames(Tail(ps))

BinEncodings ==
    {BigEndianPut(c) \o Frames(ps) :
        c \in FrameCounts,
        ps \in UNION {[1..k -> BinPayloads] : k \in FrameCounts}}

BinBodies == UNION {{Prefix(e, k) : k \in 0..Len(e)} : e \in BinEncodings}

BinBodyOf(cl) ==
    {r \in [bytes : {x \in BinBodies : cl >= 0 => Len(x) <= cl},
            rerr : {EOF, ErrUnexpectedEOF, ErrIO}] :
        cl >= 0 => ((r.rerr = EOF) <=> (Len(r.bytes) = cl))}

\* ----------------------------------------------------------- batch publish
\* doMPUB_Admit resolving the topic before it tests the declared length.
doMPUB_Admit_TopicFirst(w) ==
    /\ pc[w] = "mpub"
    /\ req[w].srv = "nsqdserver"
    /\ LET r == req[w]
           e == getExistingTopicFromQuery(r, topics) IN
       IF e # NoResp THEN Return(w, e, 0) /\ UNCHANGED loc
       ELSE IF r.contentLength > MaxBodySize
       THEN Return(w, Err(413, "BODY_TOO_BIG"), 0) /\ UNCHANGED loc
       ELSE IF r.binary
       THEN /\ pc' = [pc EXCEPT ![w] = "mpub_binary"]
            /\ UNCHANGED <<resp, leased, loc>>
       ELSE /\ pc' = [pc EXCEPT ![w] = "mpub_text"]
            /\ leased' = [leased EXCEPT ![w] = @ + 1]
            /\ loc' = [loc EXCEPT ![w].buffers = 1]
            /\ UNCHANGED resp
    /\ UNCHANGED adminVars /\ UNCHANGED <<tlsEnabled, tlsRequired, isMaster, healthy, topics, req, wire, calls>>

\* doMPUB (nsqdserver), lines 244-276: the declared-length gate, the topic,
\* and for the text format the pooled reader.
doMPUB_Admit(w) ==
    /\ pc[w] = "mpub"
    /\ req[w].srv = "nsqdserver"
    /\ LET r == req[w]
           e == getExistingTopicFromQuery(r, topics) IN
       IF r.contentLength > MaxBodySize
       THEN Return(w, Err(413, "BODY_TOO_BIG"), 0) /\ UNCHANGED loc
       ELSE IF e # NoResp THEN Return(w, e, 0) /\ UNCHANGED loc
       ELSE IF r.binary
       THEN /\ pc' = [pc EXCEPT ![w] = "mpub_binary"]
            /\ UNCHANGED <<resp, leased, loc>>
       ELSE /\ pc' = [pc EXCEPT ![w] = "mpub_text"]
            /\ leased' = [leased EXCEPT ![w] = @ + 1]
            /\ loc' = [loc EXCEPT ![w].buffers = 1]
            /\ UNCHANGED resp
    /\ UNCHANGED adminVars /\ UNCHANGED <<tlsEnabled, tlsRequired, isMaster, healthy, topics, req, wire, calls>>

\* doMPUB (nsqdserver), lines 259-270 and 311: the binary decode, its
\* buffers, and the call of topic.PutMessages.
doMPUB_Binary(w) ==
    /\ pc[w] = "mpub_binary"
    /\ \E r \in BinBodyOf(req[w].contentLength) :
        LET d == readMPUB(r, MaxMsgSize)
            nb == Len(d.msgs) IN
        /\ wire' = [wire EXCEPT ![w] = r]
        /\ loc' = [loc EXCEPT ![w].msgs = d.msgs, ![w].buffers = nb]
        /\ IF d.err # Nil
           THEN /\ resp' = [resp EXCEPT ![w] = Err(413, d.err)]
                /\ pc' = [pc EXCEPT ![w] = "done"]
                /\ leased' = [leased EXCEPT ![w] = (@ + nb) - nb]
                /\ UNCHANGED calls
           ELSE /\ calls' = [calls EXCEPT ![w].putBatch = Append(@, d.msgs)]
                /\ leased' = [leased EXCEPT ![w] = @ + nb]
                /\ pc' = [pc EXCEPT ![w] = "mpub_put"]
                /\ UNCHANGED resp
    /\ UNCHANGED adminVars /\ UNCHANGED <<tlsEnabled, tlsRequired, isMaster, healthy, topics, req>>

\* doMPUB_Text committing what was decoded before a decode error.
doMPUB_Text_CommitsPartial(w) ==
    /\ pc[w] = "mpub_text"
    /\ \E r \in BodyOf(req[w].contentLength, MaxBodySize + 1) :
        LET readMax == MaxBodySize + 1
            d == TextLoop(LimitReader(r, readMax), readMax, 0, <<>>) IN
        /\ wire' = [wire EXCEPT ![w] = r]
        /\ loc' = [loc EXCEPT ![w].msgs = d.msgs, ![w].total = d.total]
        /\ calls' = [calls EXCEPT ![w].putBatch = Append(@, d.msgs)]
        /\ IF d.err # NoResp
           THEN Return(w, d.err, 1)
           ELSE /\ pc' = [pc EXCEPT ![w] = "mpub_put"]
                /\ UNCHANGED <<resp, leased>>
    /\ UNCHANGED adminVars /\ UNCHANGED <<tlsEnabled, tlsRequired, isMaster, healthy, topics, req>>

\* doMPUB (nsqdserver), lines 277-311: the text decode and the call of
\* topic.PutMessages.
doMPUB_Text(w) ==
    /\ pc[w] = "mpub_text"
    /\ \E r \in BodyOf(req[w].contentLength, MaxBodySize + 1) :
        LET readMax == MaxBodySize + 1
            d == TextLoop(LimitReader(r, readMax), readMax, 0, <<>>) IN
        /\ wire' = [wire EXCEPT ![w] = r]
        /\ loc' = [loc EXCEPT ![w].msgs = d.msgs, ![w].total = d.total]
        /\ IF d.err # NoResp
           THEN Return(w, d.err, 1) /\ UNCHANGED calls
           ELSE /\ calls' = [calls EXCEPT ![w].putBatch = Append(@, d.msgs)]
                /\ pc' = [pc EXCEPT ![w] = "mpub_put"]
                /\ UNCHANGED <<resp, leased>>
    /\ UNCHANGED adminVars /\ UNCHANGED <<tlsEnabled, tlsRequired, isMaster, healthy, topics, req>>

\* doMPUB (nsqdserver), lines 311-317: topic.PutMessages returns, the
\* health is set from its result.
doMPUB_PutReturn(w) ==
    /\ pc[w] = "mpub_put"
    /\ \E e \in {Nil} \cup PutErrors :
        /\ loc' = [loc EXCEPT ![w].failed = e]
        /\ healthy' = (e = Nil)
        /\ Return(w, IF e = Nil THEN OK ELSE Err(503, "EXITING"), loc[w].buffers)
    /\ UNCHANGED adminVars /\ UNCHANGED <<tlsEnabled, tlsRequired, isMaster, topics, req, wire, calls>>

\* doMPUB (nsqd), part_000 lines 219-275: the declared-length gate, the
\* topic, the decode and the call of topic.PutMessages.
nsqd_doMPUB(w) ==
    /\ pc[w] = "mpub"
    /\ req[w].srv = "nsqd"
    /\ LET e == getTopicFromQuery(req[w])
           readMax == MaxBodySize + 1 IN
       IF req[w].contentLength > MaxBodySize
       THEN /\ Return(w, Err(413, "BODY_TOO_BIG"), 0)
            /\ UNCHANGED <<wire, loc, calls, topics>>
       ELSE IF e # NoResp
       THEN /\ Return(w, e, 0)
            /\ UNCHANGED <<wire, loc, calls, topics>>
       ELSE
         /\ topics' = topics \cup {req[w].topic}
         /\ \E r \in (IF req[w].binary THEN BinBodyOf(req[w].contentLength)
                       ELSE BodyOf(req[w].contentLength, readMax)) :
            LET b == readMPUB(r, MaxMsgSize)
                t == TextLoop(LimitReader(r, readMax), readMax, 0, <<>>)
                err == IF req[w].binary
                       THEN (IF b.err = Nil THEN NoResp ELSE Err(413, b.err))
                       ELSE t.err
                msgs == IF req[w].binary THEN b.msgs ELSE t.msgs IN
            /\ wire' = [wire EXCEPT ![w] = r]
            /\ loc' = [loc EXCEPT ![w].msgs = msgs,
                                  ![w].total = IF req[w].binary THEN 0 ELSE t.total]
            /\ IF err # NoResp
               THEN Return(w, err, 0) /\ UNCHANGED calls
               ELSE /\ calls' = [calls EXCEPT ![w].putBatch = Append(@, msgs)]
                    /\ pc' = [pc EXCEPT ![w] = "nsqd_mpub_put"]
                    /\ UNCHANGED <<resp, leased>>
    /\ UNCHANGED adminVars /\ UNCHANGED <<tlsEnabled, tlsRequired, isMaster, healthy, req>>

\* doMPUB (nsqd), part_000 lines 275-281: topic.PutMessages returns.
nsqd_doMPUB_PutReturn(w) ==
    /\ pc[w] = "nsqd_mpub_put"
    /\ \E e \in {Nil} \cup PutErrors :
        /\ loc' = [loc EXCEPT ![w].failed = e]
        /\ Return(w, IF e = Nil THEN OK ELSE Err(503, "EXITING"), 0)
    /\ UNCHANGED adminVars /\ UNCHANGED <<tlsEnabled, tlsRequired, isMaster, healthy, topics, req, wire, calls>>

\* http_api.Decorate: the response is written, the worker is free again.
Respond(w) ==
    /\ pc[w] = "done"
    /\ pc' = [pc EXCEPT ![w] = "idle"]
    /\ req' = [req EXCEPT ![w] = NoReq]
    /\ wire' = [wire EXCEPT ![w] = NoWire]
    /\ loc' = [loc EXCEPT ![w] = NoLoc]
    /\ calls' = [calls EXCEPT ![w] = NoCalls]
    /\ resp' = [resp EXCEPT ![w] = NoResp]
    /\ adm' = [adm EXCEPT ![w] = NoAdm]
    /\ UNCHANGED <<published, arrays, notifications, channels>>
    /\ UNCHANGED <<tlsEnabled, tlsRequired, isMaster, healthy, topics, leased>>

\* ------------------------------------------------------- specifications
Step(w) ==
    \/ ServeHTTP(w)
    \/ Respond(w)
    \/ doPUB_Admit(w)
    \/ doPUB_Read(w)
    \/ doPUB_Route(w)
    \/ doPUB_PutReturn(w)
    \/ doPUB_ForwardReturn(w)
    \/ doMPUB_Admit(w)
    \/ doMPUB_Binary(w)
    \/ doMPUB_Text(w)
    \/ doMPUB_PutReturn(w)
    \/ nsqd_doPUB(w)
    \/ nsqd_doPUB_PutReturn(w)
    \/ nsqd_doMPUB(w)
    \/ nsqd_doMPUB_PutReturn(w)

\* One request at a time.
Next == \E w \in Solo : Step(w)

Spec == Init /\ [][Next]_vars

\* ------------------------------------------------------------- doConfig
\* The writes one run admits.
MaxSwaps == 2

\* The cfg names of Options: three the PUT switch accepts, one that can
\* only be read, and a name no field carries.
OptNames == {"nsqlookupd_tcp_addresses", "verbose", "log_level",
             "max_msg_size", "no_such_option"}

ConfigDocs ==
    {JInvalid, JNull, JBool(TRUE), JNum(2),
     JArr(<<EStr("x")>>), JArr(<<EStr("y"), ENum(1)>>),
     JArr(<<EStr("x"), EStr("y"), EStr("x")>>)}

\* The first worker serves any config request; the second serves writes
\* of a valid value next to it. The document a body spells is known once
\* the body is read.
ConfigQueries(w) ==
    {q \in [method : {"GET", "PUT"}, opt : OptNames, doc : {JNull},
            topic : {""}, channel : {""}, format : {""}] :
        w # 1 => q.method = "PUT" /\ q.opt = "log_level"}

BodyDocs(w, opt) ==
    IF w = 1 THEN ConfigDocs ELSE {JNum(3)}

\* nsqd and nsqdserver run the same doConfig; the requests of one run
\* reach one process and its one options snapshot.
ConfigLengths == {-1}
ConfigRequests(w) ==
    {[srv |-> srv, op |-> "config", contentLength |-> cl, query |-> "ok",
      topic |-> "", part |-> 0, binary |-> FALSE] :
        srv \in {"nsqdserver"}, cl \in ConfigLengths}

\* The body of a config request: only its length and its end matter to
\* the read; what it spells is the document of the request.
CfgBodyOf(cl) ==
    {r \in BodyOf(cl, MaxMsgSize + 1) : \A i \in 1..Len(r.bytes) : r.bytes[i] = 97}

\* getOptByCfgName: the value of the field whose cfg name is name.
getOptByCfgName(o, name, heap) ==
    IF name = "nsqlookupd_tcp_addresses"
    THEN [ok |-> TRUE,
          v  |-> JArr([i \in 1..o.addrs.len |-> EStr(Elems(o.addrs, heap)[i])])]
    ELSE IF name = "verbose" THEN [ok |-> TRUE, v |-> JBool(o.verbose)]
    ELSE IF name = "log_level" THEN [ok |-> TRUE, v |-> JNum(o.logLevel)]
    ELSE IF name = "max_msg_size" THEN [ok |-> TRUE, v |-> JNum(MaxMsgSize)]
    ELSE [ok |-> FALSE, v |-> JNull]

\* The writes in flight, and httpServer.ServeHTTP on a config request.
Writers == Cardinality({v \in Workers : pc[v] # "idle" /\ adm[v].q.method = "PUT"})
ServeConfig(w) ==
    /\ pc[w] = "idle"
    /\ \E r \in ConfigRequests(w) : \E q \in ConfigQueries(w) :
        /\ q.method = "PUT" => Len(published) - 1 + Writers < MaxSwaps
        /\ ServeHTTPOn(w, r)
        /\ adm' = [adm EXCEPT ![w].q = q,
                              ![w].start = [n     |-> Len(published),
                                            notes |-> Len(notifications)]]
    /\ UNCHANGED <<published, arrays, notifications, channels>>

\* doConfig, lines 549-559: a PUT reads its body, bounded by MaxMsgSize + 1.
doConfig_Read(w) ==
    /\ pc[w] = "config"
    /\ IF adm[w].q.method = "PUT"
       THEN \E body \in CfgBodyOf(req[w].contentLength) :
            LET readMax == MaxMsgSize + 1
                ra == ReadAll(LimitReader(body, readMax)) IN
            /\ wire' = [wire EXCEPT ![w] = body]
            /\ IF ra.err # Nil
               THEN Return(w, Err(500, "INTERNAL_ERROR"), 0) /\ UNCHANGED adm
               ELSE IF Len(ra.body) = readMax \/ Len(ra.body) = 0
               THEN Return(w, Err(413, "INVALID_VALUE"), 0) /\ UNCHANGED adm
               ELSE \E doc \in BodyDocs(w, adm[w].q.opt) :
                    /\ adm' = [adm EXCEPT ![w].q.doc = doc]
                    /\ pc' = [pc EXCEPT ![w] = "config_parse"]
                    /\ UNCHANGED <<resp, leased>>
       ELSE /\ pc' = [pc EXCEPT ![w] = "config_get"]
            /\ UNCHANGED <<wire, resp, leased, adm>>
    /\ UNCHANGED <<published, arrays, notifications, channels>>
    /\ UNCHANGED <<tlsEnabled, tlsRequired, isMaster, healthy, topics, req, loc, calls>>

\* doConfig, lines 561-581: the copy of the current snapshot and the
\* Unmarshal of the body into the field the option names. The copy is a
\* struct copy: its list field shares the backing array of the snapshot
\* it was copied from. The arrays a failed decode allocated are garbage.
doConfig_Unmarshal(w) ==
    /\ pc[w] = "config_parse"
    /\ LET opts == getOpts(published)
           opt  == adm[w].q.opt
           doc  == adm[w].q.doc
           us   == UnmarshalStrings(doc, opts.addrs, arrays)
           ub   == UnmarshalBool(doc, opts.verbose)
           ui   == UnmarshalInt(doc, opts.logLevel)
           err  == IF opt = "nsqlookupd_tcp_addresses" THEN us.err
                   ELSE IF opt = "verbose" THEN ub.err
                   ELSE IF opt = "log_level" THEN ui.err
                   ELSE Nil
       IN
       IF opt = "nsqlookupd_tcp_addresses" /\ err = Nil
       THEN /\ adm' = [adm EXCEPT ![w].local = [opts EXCEPT !.addrs = us.sl]]
            /\ arrays' = us.heap
            /\ pc' = [pc EXCEPT ![w] = "config_swap"]
            /\ UNCHANGED <<resp, leased>>
       ELSE IF opt = "nsqlookupd_tcp_addresses"
       THEN /\ arrays' = SubSeq(us.heap, 1, Len(arrays))
            /\ Return(w, Err(400, "INVALID_VALUE"), 0)
            /\ UNCHANGED adm
       ELSE IF opt \in {"verbose", "log_level"} /\ err # Nil
       THEN /\ Return(w, Err(400, "INVALID_VALUE"), 0)
            /\ UNCHANGED <<adm, arrays>>
       ELSE IF opt = "verbose"
       THEN /\ adm' = [adm EXCEPT ![w].local = [opts EXCEPT !.verbose = ub.val]]
            /\ pc' = [pc EXCEPT ![w] = "config_swap"]
            /\ UNCHANGED <<arrays, resp, leased>>
       ELSE IF opt = "log_level"
       THEN /\ adm' = [adm EXCEPT ![w].local = [opts EXCEPT !.logLevel = ui.val]]
            /\ pc' = [pc EXCEPT ![w] = "config_swap"]
            /\ UNCHANGED <<arrays, resp, leased>>
       ELSE /\ Return(w, Err(400, "INVALID_OPTION"), 0)
            /\ UNCHANGED <<adm, arrays>>
    /\ UNCHANGED <<published, notifications, channels>>
    /\ UNCHANGED <<tlsEnabled, tlsRequired, isMaster, healthy, topics, req, wire, loc, calls>>

\* doConfig, line 582: s.ctx.swapOpts(&opts).
doConfig_Swap(w) ==
    /\ pc[w] = "config_swap"
    /\ published' = Append(published, adm[w].local)
    /\ adm' = [adm EXCEPT ![w].swapped = @ + 1]
    /\ pc' = [pc EXCEPT ![w] = "config_notify"]
    /\ UNCHANGED <<arrays, notifications, channels>>
    /\ UNCHANGED <<tlsEnabled, tlsRequired, isMaster, healthy, topics, req, wire, loc, calls, resp, leased>>

\* doConfig_Notify letting the write pass without a notification.
doConfig_Notify_Silent(w) ==
    /\ pc[w] = "config_notify"
    /\ pc' = [pc EXCEPT ![w] = "config_get"]
    /\ UNCHANGED <<published, arrays, notifications, channels, adm>>
    /\ UNCHANGED <<tlsEnabled, tlsRequired, isMaster, healthy, topics, req, wire, loc, calls, resp, leased>>

\* doConfig, line 583: s.ctx.triggerOptsNotification().
doConfig_Notify(w) ==
    /\ pc[w] = "config_notify"
    /\ notifications' = Append(notifications, Len(published))
    /\ adm' = [adm EXCEPT ![w].notified = @ + 1]
    /\ pc' = [pc EXCEPT ![w] = "config_get"]
    /\ UNCHANGED <<published, arrays, channels>>
    /\ UNCHANGED <<tlsEnabled, tlsRequired, isMaster, healthy, topics, req, wire, loc, calls, resp, leased>>

\* doConfig, lines 586-591: the option's value in the snapshot that is
\* current now.
doConfig_Get(w) ==
    /\ pc[w] = "config_get"
    /\ LET g == getOptByCfgName(getOpts(published), adm[w].q.opt, arrays) IN
       IF g.ok
       THEN /\ adm' = [adm EXCEPT ![w].out = g.v]
            /\ Return(w, OK, 0)
       ELSE /\ Return(w, Err(400, "INVALID_OPTION"), 0)
            /\ UNCHANGED adm
    /\ UNCHANGED <<published, arrays, notifications, channels>>
    /\ UNCHANGED <<tlsEnabled, tlsRequired, isMaster, healthy, topics, req, wire, loc, calls>>

StepCfg(w) ==
    \/ ServeConfig(w)
    \/ Respond(w)
    \/ doConfig_Read(w)
    \/ doConfig_Unmarshal(w)
    \/ doConfig_Swap(w)
    \/ doConfig_Notify(w)
    \/ doConfig_Get(w)

NextCfg == \E w \in Workers : StepCfg(w)

InitCfg == Init /\ tlsEnabled /\ ~tlsRequired /\ isMaster

SpecCfg == InitCfg /\ [][NextCfg]_vars

\* -------------------------------------------------------------- doStats
\* getStats: one entry per topic, in the order of the topic names, each
\* with the entries of its channels.
TopicOrder == <<"t1", "t2">>
TopicStats(t, chs) == [topic |-> t, channels |-> chs[t]]
getStats(ts, chs) ==
    LET Exists(t) == t \in ts
        names == SelectSeq(TopicOrder, Exists)
    IN [i \in 1..Len(names) |-> TopicStats(names[i], chs)]

\* getHealth.
getHealth(h) == IF h THEN "OK" ELSE "NOK"

\* The position of the first entry of stats named name (0: none).
FirstNamed(names, name) ==
    LET I == {i \in 1..Len(names) : names[i] = name}
    IN IF I = {} THEN 0 ELSE CHOOSE i \in I : \A j \in I : i <= j

\* The entry with the channel branch left out: every channel is kept.
FilterChannels_KeepsAll(topicStats, channelName) ==
    topicStats

\* doStats, lines 454-463: the channels of the entry, cut down to the
\* channel named channelName when the topic has one.
FilterChannels(topicStats, channelName) ==
    LET c == FirstNamed([i \in 1..Len(topicStats.channels) |->
                            topicStats.channels[i].name], channelName)
    IN IF channelName # "" /\ c # 0
       THEN [topicStats EXCEPT !.channels = <<topicStats.channels[c]>>]
       ELSE topicStats

\* The filter with the topic branch left out: every entry is kept.
FilterStats_KeepsAll(stats, topicName, channelName) ==
    stats

\* doStats, lines 449-470: the entries cut down to the topic named
\* topicName when a topic is named and found.
FilterStats(stats, topicName, channelName) ==
    LET t == FirstNamed([i \in 1..Len(stats) |-> stats[i].topic], topicName)
    IN IF topicName # "" /\ t # 0
       THEN <<FilterChannels(stats[t], channelName)>>
       ELSE stats

\* printStats: the text names NO_TOPICS and stops before the health line
\* when there is no entry; otherwise it lists health, topics and channels.
printStats(stats, health) ==
    IF Len(stats) = 0
    THEN [k |-> "text", health |-> "", topics |-> <<>>]
    ELSE [k |-> "text", health |-> health, topics |-> stats]

StatsQueries ==
    [method : {"GET"}, opt : {""}, doc : {JNull},
     topic : {"", "t1", "t2", "t9"}, channel : {"", "c1", "c2", "c9"},
     format : {"", "json"}]

StatsRequests ==
    {[srv |-> srv, op |-> "stats", contentLength |-> 0, query |-> q,
      topic |-> "", part |-> 0, binary |-> FALSE] :
        srv \in Servers, q \in {"unparseable", "ok"}}

\* httpServer.ServeHTTP on a stats request; one worker serves them.
ServeStats(w) ==
    /\ pc[w] = "idle" /\ w = 1
    /\ \E r \in StatsRequests : \E q \in StatsQueries :
        /\ ServeHTTPOn(w, r)
        /\ adm' = [adm EXCEPT ![w].q = q]
    /\ UNCHANGED <<published, arrays, notifications, channels>>

\* doStats.
doStats(w) ==
    /\ pc[w] = "stats"
    /\ IF req[w].query = "unparseable"
       THEN /\ Return(w, Err(400, "INVALID_REQUEST"), 0)
            /\ UNCHANGED adm
       ELSE LET q      == adm[w].q
                health == getHealth(healthy)
                stats  == FilterStats(getStats(topics, channels), q.topic, q.channel)
            IN /\ adm' = [adm EXCEPT ![w].out =
                            IF q.format # "json"
                            THEN printStats(stats, health)
                            ELSE [k |-> "json", health |-> health, topics |-> stats]]
               /\ Return(w, OK, 0)
    /\ UNCHANGED <<published, arrays, notifications, channels>>
    /\ UNCHANGED <<tlsEnabled, tlsRequired, isMaster, healthy, topics, req, wire, loc, calls>>

StepStats(w) ==
    \/ ServeStats(w)
    \/ Respond(w)
    \/ doStats(w)

NextStats == \E w \in Workers : StepStats(w)

\* The process with no topic, one or both, healthy or not.
InitStats ==
    /\ tlsEnabled = TRUE /\ tlsRequired = FALSE /\ isMaster = TRUE
    /\ healthy \in BOOLEAN
    /\ topics \in SUBSET TopicNames
    /\ pc = [w \in Workers |-> "idle"]
    /\ req = [w \in Workers |-> NoReq]
    /\ wire = [w \in Workers |-> NoWire]
    /\ loc = [w \in Workers |-> NoLoc]
    /\ calls = [w \in Workers |-> NoCalls]
    /\ resp = [w \in Workers |-> NoResp]
    /\ leased = [w \in Workers |-> 0]
    /\ published = <<InitOpts>>
    /\ arrays = InitArrays
    /\ notifications = <<>>
    /\ channels = InitChannels
    /\ adm = [w \in Workers |-> NoAdm]

SpecStats == InitStats /\ [][NextStats]_vars

\* ------------------------------------------------------- doPauseChannel
PauseQueries == {"unparseable", "no_topic", "bad_topic", "no_channel", "ok"}
PauseChannels == {"c1", "c2", "c9"}
\* The errors channel.Pause and channel.UnPause can return.
PauseErrors == {"PAUSE_FAILED"}

\* POST /channel/pause and POST /channel/unpause.
PauseRequests ==
    {[srv |-> srv, op |-> op, contentLength |-> 0, query |-> q,
      topic |-> "", part |-> 0, binary |-> FALSE] :
        srv \in Servers, op \in {"pause", "unpause"}, q \in PauseQueries \ {"ok"}}
    \cup
    {[srv |-> srv, op |-> op, contentLength |-> 0, query |-> "ok",
      topic |-> t, part |-> 0, binary |-> FALSE] :
        srv \in Servers, op \in {"pause", "unpause"}, t \in TopicNames}

\* httpServer.getExistingTopicChannelFromQuery: the error it returns,
\* NoResp for none.
getExistingTopicChannelFromQuery(r, ts) ==
    IF r.query = "unparseable" THEN Err(400, "INVALID_REQUEST")
    ELSE IF r.query = "no_topic" THEN Err(400, "MISSING_ARG_TOPIC")
    ELSE IF r.query = "bad_topic" THEN Err(400, "INVALID_ARG_TOPIC")
    ELSE IF r.query = "no_channel" THEN Err(400, "MISSING_ARG_CHANNEL")
    ELSE IF r.topic \notin ts THEN Err(404, "TOPIC_NOT_FOUND")
    ELSE NoResp

\* topic.GetExistingChannel: the position of the channel in the topic's
\* channels, 0 when the topic has no such channel.
GetExistingChannel(chs, t, c) ==
    FirstNamed([i \in 1..Len(chs[t]) |-> chs[t][i].name], c)

\* strings.Contains(req.URL.Path, "unpause") on the two routes.
IsUnpause(op) == op = "unpause"

\* httpServer.ServeHTTP on a pause or unpause request; one worker serves
\* them.
ServePause(w) ==
    /\ pc[w] = "idle" /\ w = 1
    /\ \E r \in PauseRequests : \E c \in PauseChannels :
        /\ ServeHTTPOn(w, r)
        /\ adm' = [adm EXCEPT ![w].q.channel = c, ![w].q.method = "POST"]
    /\ UNCHANGED <<published, arrays, notifications, channels>>

\* doPauseChannel, lines 389-403: the topic, the channel, and the call of
\* channel.UnPause or channel.Pause the route selects.
doPauseChannel_Find(w) ==
    /\ pc[w] \in {"pause", "unpause"}
    /\ LET r == req[w]
           e == getExistingTopicChannelFromQuery(r, topics) IN
       IF e # NoResp THEN Return(w, e, 0) /\ UNCHANGED adm
       ELSE IF GetExistingChannel(channels, r.topic, adm[w].q.channel) = 0
       THEN Return(w, Err(404, "CHANNEL_NOT_FOUND"), 0) /\ UNCHANGED adm
       ELSE /\ adm' = [adm EXCEPT ![w].log =
                         Append(@, IF IsUnpause(r.op) THEN "UnPause" ELSE "Pause")]
            /\ pc' = [pc EXCEPT ![w] = "pause_call"]
            /\ UNCHANGED <<resp, leased>>
    /\ UNCHANGED <<published, arrays, notifications, channels>>
    /\ UNCHANGED <<tlsEnabled, tlsRequired, isMaster, healthy, topics, req, wire, loc, calls>>

\* doPauseChannel_Call persisting the metadata whatever the call returned.
doPauseChannel_Call_AlwaysPersists(w) ==
    /\ pc[w] = "pause_call"
    /\ \E e \in {Nil} \cup PauseErrors :
        LET t == req[w].topic
            c == GetExistingChannel(channels, t, adm[w].q.channel) IN
        IF e # Nil
        THEN /\ adm' = [adm EXCEPT ![w].log = Append(@, "persistMetadata")]
             /\ Return(w, Err(500, "INTERNAL_ERROR"), 0)
             /\ UNCHANGED channels
        ELSE /\ channels' = [channels EXCEPT ![t][c].paused = (adm[w].log[1] = "Pause")]
             /\ adm' = [adm EXCEPT ![w].log = Append(@, "persistMetadata")]
             /\ Return(w, OK, 0)
    /\ UNCHANGED <<published, arrays, notifications>>
    /\ UNCHANGED <<tlsEnabled, tlsRequired, isMaster, healthy, topics, req, wire, loc, calls>>

\* doPauseChannel, lines 399-411: the call returns; on an error the
\* request ends, otherwise the channel is in the state asked for and the
\* metadata is persisted.
doPauseChannel_Call(w) ==
    /\ pc[w] = "pause_call"
    /\ \E e \in {Nil} \cup PauseErrors :
        LET t == req[w].topic
            c == GetExistingChannel(channels, t, adm[w].q.channel) IN
        IF e # Nil
        THEN /\ Return(w, Err(500, "INTERNAL_ERROR"), 0)
             /\ UNCHANGED <<channels, adm>>
        ELSE /\ channels' = [channels EXCEPT ![t][c].paused = (adm[w].log[1] = "Pause")]
             /\ adm' = [adm EXCEPT ![w].log = Append(@, "persistMetadata")]
             /\ Return(w, OK, 0)
    /\ UNCHANGED <<published, arrays, notifications>>
    /\ UNCHANGED <<tlsEnabled, tlsRequired, isMaster, healthy, topics, req, wire, loc, calls>>

StepPause(w) ==
    \/ ServePause(w)
    \/ Respond(w)
    \/ doPauseChannel_Find(w)
    \/ doPauseChannel_Call(w)

NextPause == \E w \in Workers : StepPause(w)

SpecPause == InitStats /\ [][NextPause]_vars

\* -------------------------------------------- concurrent publish requests
\* Two requests in flight on nsqdserver. The first worker serves a publish
\* of each kind that leases from the pool: a single publish, and a text
\* batch and a binary batch without a declared length; the second serves
\* one-byte single publishes and text batches next to it.
ConcRequests(w) ==
    {r \in Requests("nsqdserver") :
        /\ r.query = "ok" /\ r.topic = "t1" /\ r.part = 0
        /\ \/ ~r.binary /\ r.contentLength = 1
           \/ w = 1 /\ r.op = "mpub" /\ r.contentLength = -1}

ServeConc(w) ==
    /\ pc[w] = "idle"
    /\ \E r \in ConcRequests(w) : ServeHTTPOn(w, r)
    /\ UNCHANGED adminVars

StepConc(w) ==
    \/ ServeConc(w)
    \/ Respond(w)
    \/ doPUB_Admit(w)
    \/ doPUB_Read(w)
    \/ doPUB_Route(w)
    \/ doPUB_PutReturn(w)
    \/ doPUB_ForwardReturn(w)
    \/ doMPUB_Admit(w)
    \/ doMPUB_Binary(w)
    \/ doMPUB_Text(w)
    \/ doMPUB_PutReturn(w)

InitConc == Init /\ tlsEnabled /\ ~tlsRequired

NextConc == \E w \in Workers : StepConc(w)

SpecConc == InitConc /\ [][NextConc]_vars

\* ------------------------------------------- publishes and health checks
PingRequest ==
    [srv |-> "nsqdserver", op |-> "ping", contentLength |-> 0, query |-> "ok",
     topic |-> "", part |-> 0, binary |-> FALSE]

\* One-byte single publishes and text batches next to health checks.
HealthRequests(w) ==
    {r \in ConcRequests(w) : r.contentLength = 1} \cup {PingRequest}

ServeHealth(w) ==
    /\ pc[w] = "idle"
    /\ \E r \in HealthRequests(w) : ServeHTTPOn(w, r)
    /\ UNCHANGED adminVars

\* httpServer.pingHandler.
pingHandler(w) ==
    /\ pc[w] = "ping"
    /\ LET health == getHealth(healthy) IN
       IF ~healthy THEN Return(w, Err(500, health), 0)
       ELSE Return(w, [code |-> 200, msg |-> health], 0)
    /\ UNCHANGED adminVars
    /\ UNCHANGED <<tlsEnabled, tlsRequired, isMaster, healthy, topics, req, wire, loc, calls>>

StepHealth(w) ==
    \/ ServeHealth(w)
    \/ Respond(w)
    \/ pingHandler(w)
    \/ doPUB_Admit(w)
    \/ doPUB_Read(w)
    \/ doPUB_Route(w)
    \/ doPUB_PutReturn(w)
    \/ doPUB_ForwardReturn(w)
    \/ doMPUB_Admit(w)
    \/ doMPUB_Text(w)
    \/ doMPUB_PutReturn(w)

NextHealth == \E w \in Workers : StepHealth(w)

SpecHealth == InitConc /\ [][NextHealth]_vars

\* ================================================================ claims
\* The request passed the TLS gate of ServeHTTP and its handler has returned.
Handled(w) == pc[w] = "done" /\ ~(~tlsEnabled /\ tlsRequired)

\* The handler went to the body and the client delivered all of it.
Complete(w) == wire[w].rerr = EOF
\* The client went away before its body was complete.
Disconnected(w) == wire[w].rerr \in {ErrUnexpectedEOF, ErrIO}

\* The payloads handed over by the single-message calls, in order.
RECURSIVE Thirds(_)
Thirds(cs) == IF cs = <<>> THEN <<>> ELSE <<Head(cs)[3]>> \o Thirds(Tail(cs))
SinglePayloads(w) == calls[w].put \o Thirds(calls[w].forward)

\* The newline-delimited chunks of a body, as strings.Split would cut it.
RECURSIVE Chunks(_)
Chunks(b) ==
    IF b = <<>> THEN << <<>> >>
    ELSE LET init == Chunks(SubSeq(b, 1, Len(b) - 1))
             last == b[Len(b)] IN
         IF last = NL THEN Append(init, <<>>)
         ELSE [init EXCEPT ![Len(init)] = Append(@, last)]

IsNonEmpty(c) == c # <<>>
NonEmptyChunks(b) == SelectSeq(Chunks(b), IsNonEmpty)
HasBigChunk(b) == \E i \in 1..Len(Chunks(b)) : Len(Chunks(b)[i]) > MaxMsgSize

TextBatch(w) == req[w].op = "mpub" /\ ~req[w].binary
NoCommit(w) ==
    calls[w].put = <<>> /\ calls[w].putBatch = <<>> /\ calls[w].forward = <<>>

DecodeErrors ==
    {"MSG_TOO_BIG", "BODY_TOO_BIG", "INTERNAL_ERROR", "BAD_BODY", "BAD_MESSAGE"}

\* C1: a single publish whose ownership lookup answered false makes no
\* local put, makes exactly one forward call, with the topic name, its
\* partition and the payload exactly as read from the body, and looks the
\* ownership up exactly once.
C1_ForwardWhenNotOwner ==
    \A w \in Workers :
        (req[w].op = "pub" /\ calls[w].lookups > 0 /\ ~loc[w].owned) =>
            /\ calls[w].put = <<>>
            /\ calls[w].forward =
                   << <<req[w].topic, GetTopicPart(req[w].topic), wire[w].bytes>> >>
            /\ loc[w].body = wire[w].bytes
            /\ calls[w].lookups = 1

C1_Witness ==
    \E w \in Workers :
        /\ pc[w] = "done" /\ req[w].op = "pub" /\ resp[w] = OK
        /\ calls[w].lookups = 1 /\ ~loc[w].owned
        /\ Len(calls[w].forward) = 1
        /\ Len(calls[w].forward[1][3]) = MaxMsgSize

\* C2: a batch publish is committed to the local engine only if this node
\* is authoritative for the topic's partition; otherwise putBatch is never
\* invoked and the whole batch is forwarded.
C2_BatchRoutedByOwnership ==
    \A w \in Workers :
        (req[w].op = "mpub" /\ req[w].srv = "nsqdserver" /\ ~isMaster
         /\ loc[w].msgs # <<>>) =>
            /\ calls[w].putBatch = <<>>
            /\ (pc[w] = "done" /\ resp[w] = OK => Len(calls[w].forward) = 1)

\* C3: a batch publish invokes putBatch at most once and only when the
\* whole body decoded without error; a request whose decode fails passes
\* nothing to the engine, the messages decoded before the error included.
C3_NoPartialBatch ==
    \A w \in Workers :
        req[w].op = "mpub" =>
            /\ Len(calls[w].putBatch) <= 1
            /\ calls[w].put = <<>>
            /\ resp[w].msg \in DecodeErrors => calls[w].putBatch = <<>>
            /\ calls[w].putBatch # <<>> =>
                   /\ calls[w].putBatch[1] = loc[w].msgs
                   /\ IF req[w].binary
                      THEN readMPUB(wire[w], MaxMsgSize).err = Nil
                      ELSE TextLoop(LimitReader(wire[w], MaxBodySize + 1),
                                    MaxBodySize + 1, 0, <<>>).err = NoResp

C3_Witness ==
    \E w \in Workers :
        /\ pc[w] = "done" /\ req[w].op = "mpub" /\ ~req[w].binary
        /\ req[w].srv = "nsqdserver"
        /\ resp[w] = Err(413, "MSG_TOO_BIG")
        /\ loc[w].msgs # <<>>
        /\ calls[w].putBatch = <<>>

\* C4 as claimed: whenever the client goes away before its body is
\* complete, a text batch and a single publish commit nothing.
C4_Original ==
    \A w \in Workers :
        (Disconnected(w) /\ (TextBatch(w) \/ req[w].op = "pub")) => NoCommit(w)

\* C4: when the client goes away before its body is complete, the text
\* batch path and the single publish of nsqd commit nothing; the single
\* publish of nsqdserver commits nothing unless the read ended in an
\* unexpected end of stream after at least one byte, and then it hands
\* over exactly the bytes read, once.
C4_DisconnectCommitsNothing ==
    \A w \in Workers :
        (Disconnected(w) /\ (TextBatch(w) \/ req[w].op = "pub")) =>
            IF /\ req[w].op = "pub" /\ req[w].srv = "nsqdserver"
               /\ wire[w].rerr = ErrUnexpectedEOF /\ Len(wire[w].bytes) > 0
               /\ req[w].contentLength \in 1..MaxMsgSize
            THEN /\ calls[w].putBatch = <<>>
                 /\ pc[w] \notin {"pub_read", "pub_route"} =>
                        SinglePayloads(w) = <<wire[w].bytes>>
            ELSE NoCommit(w)

C4_Witness ==
    \E w \in Workers :
        /\ pc[w] = "done" /\ TextBatch(w) /\ req[w].srv = "nsqdserver"
        /\ Disconnected(w)
        /\ loc[w].msgs # <<>>
        /\ resp[w] = Err(500, "INTERNAL_ERROR")
        /\ NoCommit(w)

\* C5 as claimed: a single publish whose declared or actual length exceeds
\* MaxMsgSize is answered MSG_TOO_BIG and makes no put and no forward.
C5_Original ==
    \A w \in Workers :
        (Handled(w) /\ req[w].op = "pub"
         /\ (req[w].contentLength > MaxMsgSize \/ Len(wire[w].bytes) > MaxMsgSize)) =>
            resp[w] = Err(413, "MSG_TOO_BIG") /\ NoCommit(w)

\* C5: a single publish whose declared length exceeds MaxMsgSize is
\* answered MSG_TOO_BIG; one whose body exceeds MaxMsgSize with no length
\* declared is answered MSG_TOO_BIG by nsqd and MSG_EMPTY by nsqdserver;
\* neither makes a put or a forward; a body of exactly MaxMsgSize bytes,
\* declared as such or not declared, is not answered MSG_TOO_BIG.
C5_Oversize ==
    \A w \in Workers :
        (Handled(w) /\ req[w].op = "pub") =>
            /\ req[w].contentLength > MaxMsgSize =>
                   resp[w] = Err(413, "MSG_TOO_BIG") /\ NoCommit(w)
            /\ (Len(wire[w].bytes) > MaxMsgSize /\ req[w].contentLength = -1) =>
                   /\ NoCommit(w)
                   /\ resp[w] = IF req[w].srv = "nsqd" THEN Err(413, "MSG_TOO_BIG")
                                 ELSE Err(400, "MSG_EMPTY")
            /\ (Len(wire[w].bytes) = MaxMsgSize /\ req[w].contentLength <= MaxMsgSize) =>
                   resp[w].msg # "MSG_TOO_BIG"

C5_Witness ==
    \E w \in Workers :
        /\ Handled(w) /\ req[w].op = "pub" /\ req[w].srv = "nsqdserver"
        /\ req[w].contentLength = MaxMsgSize + 1
        /\ req[w].query = "ok" /\ req[w].topic \in topics
        /\ resp[w] = Err(413, "MSG_TOO_BIG") /\ NoCommit(w)

\* The single publish names a topic the handler can publish to.
Publishable(w) ==
    /\ req[w].query = "ok"
    /\ req[w].srv = "nsqdserver" =>
           req[w].topic \in topics /\ req[w].part = GetTopicPart(req[w].topic)

\* C6 as claimed: a single publish to an existing topic with a complete,
\* non-empty body of at most MaxMsgSize bytes hands over exactly one
\* message, the body byte for byte, whatever length was declared.
C6_Original ==
    \A w \in Workers :
        (Handled(w) /\ req[w].op = "pub" /\ Publishable(w) /\ Complete(w)
         /\ Len(wire[w].bytes) \in 1..MaxMsgSize) =>
            /\ SinglePayloads(w) = <<wire[w].bytes>>
            /\ resp[w].code \in {200, 500, 503}

\* C6: a single publish to an existing topic with a non-empty body of at
\* most MaxMsgSize bytes hands over exactly one message, the body byte for
\* byte, provided the declared length is between 1 and MaxMsgSize (the
\* body may fall short of it and end in an unexpected end of stream); the
\* nsqd handler does the same for a complete body with no length declared.
C6_ExactPayload ==
    \A w \in Workers :
        (Handled(w) /\ req[w].op = "pub" /\ Publishable(w)
         /\ Len(wire[w].bytes) \in 1..MaxMsgSize
         /\ IF req[w].srv = "nsqdserver"
            THEN /\ req[w].contentLength \in 1..MaxMsgSize
                 /\ wire[w].rerr \in {EOF, ErrUnexpectedEOF}
            ELSE req[w].contentLength <= MaxMsgSize /\ Complete(w)) =>
            /\ SinglePayloads(w) = <<wire[w].bytes>>
            /\ calls[w].putBatch = <<>>
            /\ resp[w].code \in {200, 500, 503}
            /\ resp[w].msg \notin {"INTERNAL_ERROR", "MSG_EMPTY", "MSG_TOO_BIG"}

C6_Witness ==
    \E w \in Workers :
        /\ Handled(w) /\ req[w].op = "pub" /\ req[w].srv = "nsqdserver"
        /\ req[w].contentLength = MaxMsgSize
        /\ Len(wire[w].bytes) = 1 /\ wire[w].rerr = ErrUnexpectedEOF
        /\ resp[w] = OK
        /\ calls[w].put = <<wire[w].bytes>>

\* C7 as claimed: a single publish that declares a length of zero or no
\* length is answered MSG_EMPTY and makes no put and no forward.
C7_Original ==
    \A w \in Workers :
        (req[w].op = "pub" /\ req[w].contentLength <= 0 /\ ~Disconnected(w)) =>
            /\ NoCommit(w)
            /\ Handled(w) => resp[w] = Err(400, "MSG_EMPTY")

\* C7: the single publish of nsqdserver answers MSG_EMPTY to every request
\* that declares a length of zero or no length, whatever its body and its
\* query, and makes no put and no forward; the single publish of nsqd
\* does so for a declared length of zero, and for a request without a
\* declared length exactly when its body is read to the end and is empty.
C7_EmptyDeclared ==
    \A w \in Workers :
        (req[w].op = "pub" /\ req[w].contentLength <= 0) =>
            IF req[w].srv = "nsqdserver" \/ req[w].contentLength = 0
            THEN /\ NoCommit(w)
                 /\ Handled(w) => resp[w] = Err(400, "MSG_EMPTY")
            ELSE Handled(w) =>
                    ((resp[w] = Err(400, "MSG_EMPTY")) <=>
                        (Complete(w) /\ wire[w].bytes = <<>>))

C7_Witness ==
    \E w \in Workers :
        /\ Handled(w) /\ req[w].op = "pub" /\ req[w].srv = "nsqdserver"
        /\ req[w].contentLength = -1
        /\ req[w].query = "ok" /\ req[w].topic \in topics
        /\ Len(wire[w].bytes) = 1 /\ Complete(w)
        /\ resp[w] = Err(400, "MSG_EMPTY") /\ NoCommit(w)

\* The text batch body was read to its end and is within both limits.
WithinLimits(w) ==
    /\ TextBatch(w) /\ Complete(w)
    /\ Len(wire[w].bytes) <= MaxBodySize
    /\ ~HasBigChunk(wire[w].bytes)

\* C8: for a text batch body within the limits, putBatch receives, once,
\* exactly the non-empty newline-delimited chunks of the body in their
\* order; empty chunks give no message and no error, and a body of
\* newlines only is a batch of zero messages that is not turned away.
C8_TextBatchChunks ==
    \A w \in Workers :
        WithinLimits(w) =>
            /\ calls[w].putBatch = <<NonEmptyChunks(wire[w].bytes)>>
            /\ calls[w].put = <<>> /\ calls[w].forward = <<>>
            /\ pc[w] = "done" => resp[w] \in {OK, Err(503, "EXITING")}

C8_Witness ==
    \E w \in Workers :
        /\ pc[w] = "done" /\ WithinLimits(w) /\ resp[w] = OK
        /\ wire[w].bytes = <<97, NL, NL, 97, 97>>
        /\ calls[w].putBatch = << << <<97>>, <<97, 97>> >> >>

\* C9: in the text batch decode, cumulative reads of MaxBodySize + 1 bytes
\* end the request with BODY_TOO_BIG and nothing committed, also with no
\* length declared; a body of at most MaxBodySize bytes is never answered
\* BODY_TOO_BIG by the decode.
C9_BodyTooBig ==
    \A w \in Workers :
        (TextBatch(w) /\ wire[w].rerr # Unread) =>
            /\ loc[w].total <= MaxBodySize + 1
            /\ loc[w].total = MaxBodySize + 1 =>
                   resp[w] = Err(413, "BODY_TOO_BIG") /\ NoCommit(w)
            /\ Len(wire[w].bytes) > MaxBodySize =>
                   resp[w].msg \in {"BODY_TOO_BIG", "MSG_TOO_BIG"} /\ NoCommit(w)
            /\ (Len(wire[w].bytes) > MaxBodySize /\ ~HasBigChunk(wire[w].bytes)) =>
                   resp[w] = Err(413, "BODY_TOO_BIG")
            /\ Len(wire[w].bytes) <= MaxBodySize => resp[w].msg # "BODY_TOO_BIG"

C9_Witness ==
    \E w \in Workers :
        /\ pc[w] = "done" /\ TextBatch(w) /\ req[w].srv = "nsqdserver"
        /\ req[w].contentLength = -1
        /\ Len(wire[w].bytes) = MaxBodySize + 1 /\ ~HasBigChunk(wire[w].bytes)
        /\ loc[w].msgs # <<>>
        /\ resp[w] = Err(413, "BODY_TOO_BIG") /\ NoCommit(w)

\* C10 as claimed: a text batch body with a chunk longer than MaxMsgSize
\* is answered MSG_TOO_BIG.
C10_Original ==
    \A w \in Workers :
        (TextBatch(w) /\ Complete(w) /\ HasBigChunk(wire[w].bytes)) =>
            resp[w] = Err(413, "MSG_TOO_BIG") /\ NoCommit(w)

\* C10: a text batch body with a chunk longer than MaxMsgSize is answered
\* MSG_TOO_BIG, and the messages decoded before that chunk are discarded,
\* unless reading the chunk brings the bytes read to MaxBodySize + 1: then
\* the answer is BODY_TOO_BIG; a chunk of exactly MaxMsgSize bytes is
\* accepted.
C10_MsgTooBig ==
    \A w \in Workers :
        (TextBatch(w) /\ Complete(w)) =>
            /\ HasBigChunk(wire[w].bytes) =>
                   /\ NoCommit(w)
                   /\ resp[w].msg \in {"MSG_TOO_BIG", "BODY_TOO_BIG"}
                   /\ resp[w].msg = "BODY_TOO_BIG" => loc[w].total = MaxBodySize + 1
                   /\ Len(wire[w].bytes) <= MaxBodySize =>
                          resp[w] = Err(413, "MSG_TOO_BIG")
            /\ (~HasBigChunk(wire[w].bytes) /\ Len(wire[w].bytes) <= MaxBodySize) =>
                   /\ resp[w].msg # "MSG_TOO_BIG"
                   /\ calls[w].putBatch = <<NonEmptyChunks(wire[w].bytes)>>

C10_Witness ==
    \E w \in Workers :
        /\ pc[w] = "done" /\ TextBatch(w) /\ Complete(w)
        /\ req[w].srv = "nsqdserver"
        /\ Len(wire[w].bytes) <= MaxBodySize
        /\ HasBigChunk(wire[w].bytes)
        /\ loc[w].msgs # <<>> /\ Len(loc[w].msgs[1]) = MaxMsgSize
        /\ resp[w] = Err(413, "MSG_TOO_BIG") /\ NoCommit(w)

\* The bytes readMPUB has taken from the body for the messages it decoded:
\* the count, then a length and a payload per message.
RECURSIVE FramedLen(_)
FramedLen(ms) == IF ms = <<>> THEN 0 ELSE 4 + Len(Head(ms)) + FramedLen(Tail(ms))
BinConsumed(ms) == 4 + FramedLen(ms)

RECURSIVE Outstanding(_)
Outstanding(ws) ==
    IF ws = {} THEN 0
    ELSE LET w == CHOOSE x \in ws : TRUE IN leased[w] + Outstanding(ws \ {w})

Quiet(w) == pc[w] \in {"idle", "done"}

\* C12: a publish request gives back every buffer and pooled reader it
\* leased, once: no request holds a lease after it has returned, whatever
\* its outcome, none gives back more than it leased, and with every
\* request returned no lease is outstanding.
C12_LeasesReturned ==
    /\ \A w \in Workers : leased[w] >= 0 /\ (Quiet(w) => leased[w] = 0)
    /\ (\A w \in Workers : Quiet(w)) => Outstanding(Workers) = 0

C12_Witness ==
    /\ pc[1] = "done" /\ req[1].op = "mpub" /\ req[1].binary
    /\ resp[1] = Err(413, "BAD_MESSAGE") /\ loc[1].buffers > 0
    /\ leased[1] = 0
    /\ pc[2] = "pub_route" /\ leased[2] = 1

\* C13: with TLS required and the connection not TLS, every request is
\* answered 403 TLS_REQUIRED with the HTTPS port in the answer, and no
\* handler runs: the body stays unread, no topic is looked up or created,
\* and no put, forward, lookup, lease or options call is made.
C13_TLSRequired ==
    \A w \in Workers :
        (~tlsEnabled /\ tlsRequired /\ req[w] # NoReq) =>
            /\ pc[w] = "done"
            /\ resp[w].code = 403 /\ resp[w].msg = "TLS_REQUIRED"
            /\ "https_port" \in DOMAIN resp[w]
            /\ wire[w] = NoWire /\ loc[w] = NoLoc /\ calls[w] = NoCalls
            /\ leased[w] = 0 /\ topics = {"t1"}
            /\ Len(published) = 1 /\ notifications = <<>>

\* C14: a publish whose put on the local engine failed is answered 503,
\* one whose forward failed is answered 500 with the collaborator's
\* message; the call that failed was made once, no other call was made
\* for the request, and the answer is not the acknowledgement.
C14_FailuresSurfaced ==
    \A w \in Workers :
        (pc[w] = "done" /\ loc[w].failed # Nil) =>
            /\ resp[w] # OK
            /\ IF calls[w].forward # <<>>
               THEN /\ resp[w] = Err(500, loc[w].failed)
                    /\ Len(calls[w].forward) = 1
                    /\ calls[w].put = <<>> /\ calls[w].putBatch = <<>>
               ELSE /\ resp[w].code = 503
                    /\ Len(calls[w].put) + Len(calls[w].putBatch) = 1

C14_Witness ==
    \E w \in Workers :
        /\ pc[w] = "done" /\ req[w].op = "pub"
        /\ loc[w].failed = "FORWARD_TIMEOUT"
        /\ resp[w] = Err(500, "FORWARD_TIMEOUT")
        /\ Len(calls[w].forward) = 1

\* C15: a successful write of a value v (other than null) to a writable
\* option answers with v as the option's value, also when another writer
\* runs at the same time.
C15_ReadAfterWrite ==
    \A w \in Workers :
        (/\ pc[w] = "done" /\ req[w].op = "config"
         /\ adm[w].q.method = "PUT" /\ resp[w] = OK
         /\ adm[w].q.doc.k # "null")
        => adm[w].out = adm[w].q.doc

\* C16: the step on which a config write fails leaves the snapshots, the
\* notifications and the field values of the current snapshot as they
\* were, and the failing request has swapped and notified nothing.
C16_FailedWriteFrame ==
    [][\A w \in Workers :
        (/\ pc[w] # "done" /\ pc'[w] = "done" /\ req[w].op = "config"
         /\ adm[w].q.method = "PUT" /\ resp'[w] # OK)
        => /\ adm[w].swapped = 0 /\ adm[w].notified = 0
           /\ published' = published
           /\ notifications' = notifications
           /\ Elems(getOpts(published').addrs, arrays')
                = Elems(getOpts(published).addrs, arrays)]_vars

\* C17: no step changes a snapshot that is already published: each keeps
\* its fields and the elements of its lookup-address list.
C17_NoInPlaceMutation ==
    [][\A i \in 1..Len(published) :
        /\ published'[i] = published[i]
        /\ Elems(published'[i].addrs, arrays') = Elems(published[i].addrs, arrays)]_vars

\* The field values a snapshot shows, and the field an option names.
Shown(o, heap) ==
    [nsqlookupd_tcp_addresses |-> Elems(o.addrs, heap),
     verbose |-> o.verbose, log_level |-> o.logLevel]
Writable == {"nsqlookupd_tcp_addresses", "verbose", "log_level"}

\* C18: the snapshot a write of option X swaps in differs from the
\* snapshot it replaces in no field other than X.
C18_WritersSerialized ==
    [][\A w \in Workers :
        (pc[w] = "config_swap" /\ pc'[w] = "config_notify")
        => \A f \in Writable \ {adm[w].q.opt} :
              Shown(getOpts(published'), arrays')[f]
                = Shown(getOpts(published), arrays)[f]]_vars

\* C19: a stats request that names an existing topic T answers with one
\* entry, the entry of T; with no channel named it is T's entry of the
\* unfiltered statistics.
C19_TopicFilter ==
    \A w \in Workers :
        (/\ pc[w] = "done" /\ req[w].op = "stats" /\ resp[w] = OK
         /\ adm[w].q.topic \in topics)
        => /\ Len(adm[w].out.topics) = 1
           /\ adm[w].out.topics[1].topic = adm[w].q.topic
           /\ adm[w].q.channel = ""
                => adm[w].out.topics[1] = TopicStats(adm[w].q.topic, channels)

\* Both topics exist and the second is asked for: its entry alone comes
\* back, without the entry of the first.
C19_Witness ==
    \E w \in Workers :
        /\ pc[w] = "done" /\ req[w].op = "stats" /\ resp[w] = OK
        /\ topics = {"t1", "t2"}
        /\ adm[w].q.topic = "t2" /\ adm[w].q.channel = ""
        /\ adm[w].out.topics = <<TopicStats("t2", channels)>>

\* C20: a stats request that names a topic that does not exist succeeds
\* with an empty topic list.
C20_NoMatchEmpty ==
    \A w \in Workers :
        (/\ pc[w] = "done" /\ req[w].op = "stats"
         /\ req[w].query = "ok"
         /\ adm[w].q.topic # "" /\ adm[w].q.topic \notin topics)
        => resp[w] = OK /\ adm[w].out.topics = <<>>

\* The entries of the channels of topic t that are named c.
ChannelEntries(t, c) ==
    SelectSeq(channels[t], LAMBDA e : e.name = c)

C22_EncodingsAgree ==
    \A w \in Workers :
        (pc[w] = "done" /\ req[w].op = "stats" /\ resp[w] = OK)
        => LET q      == adm[w].q
               health == getHealth(healthy)
               stats  == FilterStats(getStats(topics, channels), q.topic, q.channel)
               other  == IF q.format = "json"
                         THEN printStats(stats, health)
                         ELSE [k |-> "json", health |-> health, topics |-> stats]
           IN /\ adm[w].out.k # other.k
              /\ adm[w].out.health = other.health
              /\ adm[w].out.topics = other.topics

\* The messages of the malformed-input answers of the publish handlers.
Malformed ==
    {"INVALID_REQUEST", "MISSING_ARG_TOPIC", "INVALID_ARG_TOPIC", "INVALID_TOPIC",
     "INVALID_ARG_TOPIC_PARTITION"}

\* A publish at the entry of its handler, well-formed, addressed to a topic
\* that does not exist.
ToMissingTopic(w) ==
    /\ pc[w] \in {"pub", "mpub"}
    /\ req[w].query = "ok" /\ req[w].topic \notin topics

\* The declared length passes the handler's first test.
PassesLengthGate(r) ==
    IF r.op = "pub"
    THEN r.contentLength <= MaxMsgSize /\ (r.srv = "nsqdserver" => r.contentLength > 0)
    ELSE r.contentLength <= MaxBodySize

\* C23 as stated: on either server the step a publish to a missing topic
\* takes ends it with an error that is no malformed-input answer, makes
\* no call and leaves the topics as they are.
C23_Original ==
    [][\A w \in Workers :
        (ToMissingTopic(w) /\ PassesLengthGate(req[w]) /\ pc'[w] # pc[w])
        => /\ pc'[w] = "done"
           /\ resp'[w].code >= 400 /\ resp'[w].msg \notin Malformed
           /\ calls'[w] = NoCalls
           /\ topics' = topics]_vars

\* C23, amended: on nsqdserver the step a publish to a missing topic takes
\* ends it: with the answer of the length gate when the declared length
\* fails it, otherwise with status 400 and the engine's not-found error,
\* whose message is none of the malformed-input messages; the body is not
\* read, no call is made, no buffer is leased and no topic is created.
\* On nsqd the step either ends the request with an error and no call, or
\* creates the topic and goes on to the put; a batch within the body
\* ceiling creates the topic even when its decode then fails.
C23_NotFound ==
    [][/\ \A w \in Workers :
        (ToMissingTopic(w) /\ req[w].srv = "nsqdserver" /\ pc'[w] # pc[w])
        => /\ pc'[w] = "done"
           /\ IF PassesLengthGate(req[w])
              THEN /\ resp'[w] = Err(400, "TOPIC_NOT_EXIST")
                   /\ resp'[w].msg \notin Malformed
                   /\ wire'[w] = NoWire
              ELSE resp'[w] \in {Err(413, "MSG_TOO_BIG"), Err(400, "MSG_EMPTY"),
                                 Err(413, "BODY_TOO_BIG")}
           /\ calls'[w] = NoCalls
           /\ leased'[w] = leased[w]
           /\ topics' = topics
     /\ \A w \in Workers :
        (ToMissingTopic(w) /\ req[w].srv = "nsqd" /\ pc'[w] # pc[w])
        => /\ pc'[w] = "done" => calls'[w] = NoCalls /\ resp'[w].code >= 400
           /\ pc'[w] # "done" => topics' = topics \cup {req[w].topic}
           /\ (req[w].op = "mpub" /\ PassesLengthGate(req[w]))
                => topics' = topics \cup {req[w].topic}
           /\ topics' \subseteq topics \cup {req[w].topic}]_vars

\* A batch for a topic that does not exist has been answered not-found.
C23_Witness ==
    \E w \in Workers :
        /\ pc[w] = "done" /\ req[w].srv = "nsqdserver" /\ req[w].op = "mpub"
        /\ req[w].query = "ok" /\ req[w].topic = "t2" /\ "t2" \notin topics
        /\ req[w].contentLength = 1
        /\ resp[w] = Err(400, "TOPIC_NOT_EXIST")
        /\ calls[w] = NoCalls

\* The declared length of the request is above the ceiling of its
\* endpoint.
DeclaredOver(r) ==
    \/ r.op = "pub" /\ r.contentLength > MaxMsgSize
    \/ r.op = "mpub" /\ r.contentLength > MaxBodySize

\* C24: a publish whose declared length is above the ceiling is turned
\* away by the first step of its handler, whatever its query: MSG_TOO_BIG
\* on the single endpoint, BODY_TOO_BIG on the batch endpoint, nothing
\* read into the handler, no call or ownership lookup, no buffer leased,
\* no topic touched.
C24_RejectedFirst ==
    [][\A w \in Workers :
        (pc[w] \in {"pub", "mpub"} /\ DeclaredOver(req[w]) /\ pc'[w] # pc[w])
        => /\ pc'[w] = "done"
           /\ resp'[w] = IF req[w].op = "pub" THEN Err(413, "MSG_TOO_BIG")
                         ELSE Err(413, "BODY_TOO_BIG")
           /\ loc'[w] = NoLoc
           /\ calls'[w] = NoCalls
           /\ leased'[w] = leased[w]
           /\ topics' = topics]_vars

\* A batch one byte over the ceiling, with a query that cannot be parsed,
\* has been answered BODY_TOO_BIG.
C24_Witness ==
    \E w \in Workers :
        /\ pc[w] = "done" /\ req[w].srv = "nsqdserver" /\ req[w].op = "mpub"
        /\ req[w].contentLength = MaxBodySize + 1
        /\ req[w].query = "unparseable"
        /\ resp[w] = Err(413, "BODY_TOO_BIG")
        /\ loc[w] = NoLoc /\ calls[w] = NoCalls /\ leased[w] = 0

\* The single publish of nsqdserver has read its body.
HasRead(w) ==
    /\ req[w].srv = "nsqdserver" /\ req[w].op = "pub"
    /\ pc[w] \notin {"idle", "pub", "pub_read"}
    /\ wire[w].rerr # Unread /\ loc[w] # NoLoc

\* C25: after a read that ended in an end-of-stream condition before the
\* declared length, the request goes on with exactly the bytes read, and
\* fails MSG_EMPTY without a call when there are none; after any other
\* read error it ends with INTERNAL_ERROR and no put or forward call.
C25_ShortReadTolerated ==
    \A w \in Workers :
        HasRead(w) =>
        /\ loc[w].err \in {EOF, ErrUnexpectedEOF}
           => /\ loc[w].body = wire[w].bytes
              /\ Len(loc[w].body) < req[w].contentLength
              /\ IF loc[w].body = <<>>
                 THEN /\ pc[w] = "done" /\ resp[w] = Err(400, "MSG_EMPTY")
                      /\ calls[w] = NoCalls
                 ELSE /\ SinglePayloads(w) \in {<<>>, <<loc[w].body>>}
                      /\ pc[w] = "done"
                           => /\ SinglePayloads(w) = <<loc[w].body>>
                              /\ resp[w] \notin {Err(500, "INTERNAL_ERROR"),
                                                 Err(400, "MSG_EMPTY")}
        /\ loc[w].err \notin {Nil, EOF, ErrUnexpectedEOF}
           => /\ pc[w] = "done" /\ resp[w] = Err(500, "INTERNAL_ERROR")
              /\ calls[w] = NoCalls

\* One byte of two declared arrived before the stream ended; that byte has
\* been put and the request answered OK.
C25_Witness ==
    \E w \in Workers :
        /\ HasRead(w) /\ pc[w] = "done" /\ resp[w] = OK
        /\ req[w].contentLength = 2
        /\ loc[w].err = ErrUnexpectedEOF
        /\ Len(loc[w].body) = 1
        /\ calls[w].put = <<loc[w].body>>

\* Worker w makes the step of triggerOptsNotification.
Notifies(w) == pc[w] = "config_notify" /\ pc'[w] # pc[w]

\* C26: a notification is sent only by the step that follows the swap of
\* a write, once per write; the snapshot current at that moment is the one
\* the write swapped in or a later one, never one from before the write;
\* and a write answered OK has swapped once and notified once.
C26_NotifyOnceAfterSwap ==
    [][/\ \A w \in Workers :
            Notifies(w)
            => /\ adm[w].swapped = 1 /\ adm[w].notified = 0
               /\ adm'[w].notified = 1
               /\ Len(published) > adm[w].start.n
               /\ published' = published
               /\ notifications' = Append(notifications, Len(published))
       /\ (\A w \in Workers : ~Notifies(w)) => notifications' = notifications
       /\ \A w \in Workers :
            (/\ pc[w] # "done" /\ pc'[w] = "done" /\ req[w].op = "config"
             /\ adm[w].q.method = "PUT" /\ resp'[w] = OK)
            => /\ adm[w].swapped = 1 /\ adm[w].notified = 1
               /\ Len(notifications) > adm[w].start.notes]_vars

\* A write has been answered OK after one swap and one notification, sent
\* when the new snapshot was current.
C26_Witness ==
    \E w \in Workers :
        /\ pc[w] = "done" /\ req[w].op = "config" /\ adm[w].q.method = "PUT"
        /\ resp[w] = OK
        /\ adm[w].swapped = 1 /\ adm[w].notified = 1
        /\ Len(published) = 2 /\ notifications = <<2>>

\* The call the route of a pause or unpause request selects.
RouteCall(r) == IF r.op = "unpause" THEN "UnPause" ELSE "Pause"

\* C27: a pause or unpause request answered OK has called Pause or
\* UnPause, UnPause exactly on the unpause route, and then persisted the
\* metadata once, and its channel is paused exactly when the route is not
\* the unpause route; a request that failed has persisted nothing, and has
\* not even made the call when the topic or the channel was not found.
C27_PersistAfterPause ==
    \A w \in Workers :
        (req[w].op \in {"pause", "unpause"} /\ pc[w] \in {"pause_call", "done"})
        => LET r == req[w]
               c == GetExistingChannel(channels, r.topic, adm[w].q.channel)
           IN IF pc[w] = "pause_call"
              THEN adm[w].log = <<RouteCall(r)>>
              ELSE IF resp[w] = OK
              THEN /\ adm[w].log = <<RouteCall(r), "persistMetadata">>
                   /\ c # 0
                   /\ channels[r.topic][c].paused = (r.op # "unpause")
              ELSE IF resp[w] = Err(500, "INTERNAL_ERROR")
              THEN adm[w].log = <<RouteCall(r)>>
              ELSE /\ adm[w].log = <<>>
                   /\ resp[w].code \in {400, 404}

\* The first channel paused by an earlier request, the second, paused
\* before as well, now unpaused and the metadata persisted after the call.
C27_Witness ==
    \E w \in Workers :
        /\ pc[w] = "done" /\ req[w].op = "unpause" /\ resp[w] = OK
        /\ req[w].topic = "t1" /\ adm[w].q.channel = "c2"
        /\ adm[w].log = <<"UnPause", "persistMetadata">>
        /\ channels["t1"][1].paused /\ ~channels["t1"][2].paused

\* Worker w makes the step on which topic.PutMessages returns.
BatchCommitReturns(w) == pc[w] = "mpub_put" /\ pc'[w] = "done"

\* C28: the step on which a batch commit returns sets the health from its
\* result, no other step changes the health, not the return of a failed
\* put or forward of a single publish either, and the health check
\* answers with an error exactly when the health is bad.
C28_HealthOnlyByBatch ==
    [][/\ \A w \in Workers :
            BatchCommitReturns(w)
            => /\ healthy' = (loc'[w].failed = Nil)
               /\ resp'[w] = IF healthy' THEN OK ELSE Err(503, "EXITING")
       /\ (\A w \in Workers : ~BatchCommitReturns(w)) => healthy' = healthy
       /\ \A w \in Workers :
            (pc[w] \in {"pub_put", "pub_forward"} /\ pc'[w] = "done")
            => healthy' = healthy
       /\ \A w \in Workers :
            (pc[w] = "ping" /\ pc'[w] = "done")
            => (resp'[w].code >= 400) = ~healthy]_vars

\* A single publish whose put failed has left the health good, and a
\* health check has answered without an error.
C28_Witness ==
    \E w, v \in Workers :
        /\ pc[w] = "done" /\ req[w].op = "pub" /\ loc[w].failed \in PutErrors
        /\ resp[w].code = 503
        /\ healthy
        /\ pc[v] = "done" /\ req[v].op = "ping" /\ resp[v] = [code |-> 200, msg |-> "OK"]

\* The put or the forward of worker w's single publish is in progress.
InCall(w) == pc[w] \in {"pub_put", "pub_forward"}

\* C29: while the put or the forward of a single publish is in progress
\* its buffer is out of the pool, held by this request, with the payload
\* of the call in it; the buffer goes back to the pool only on the step
\* that ends the request, and once a call has been made that step is the
\* return of the call.
C29_BufferHeldThroughCall ==
    [][\A w \in Workers :
        /\ InCall(w)'
           => /\ leased'[w] = 1
              /\ SinglePayloads(w)' = <<loc'[w].body>>
        /\ (req[w].op = "pub" /\ leased'[w] < leased[w])
           => /\ pc'[w] = "done"
              /\ leased[w] = 1 /\ leased'[w] = 0
              /\ SinglePayloads(w) # <<>> => InCall(w)]_vars

\* A put is in progress with its buffer held while another request has
\* leased a buffer of its own and is reading its body into it.
C29_Witness ==
    \E w, v \in Workers :
        /\ w # v
        /\ pc[w] = "pub_put" /\ leased[w] = 1
        /\ calls[w].put = <<loc[w].body>>
        /\ pc[v] = "pub_read" /\ leased[v] = 1

====
